---- MODULE Spec2Model ----
(***************************************************************************)
(* Preflight resolvers of Pacsea: the dependency / conflict resolver       *)
(* (src/logic/deps/resolve.rs) and the file-change resolver                *)
(* (src/logic/files.rs).                                                   *)
(*                                                                         *)
(* Strings are sequences of one-character strings, so that prefix, suffix  *)
(* and infix tests and the byte-wise ordering of paths are computed, not   *)
(* assumed.  Every external command (pacman, paru, yay, curl) is a step    *)
(* whose outcome is drawn nondeterministically when the command is issued. *)
(***************************************************************************)
EXTENDS Integers, Sequences, FiniteSets, TLC

VARIABLES
    \* ---- one call of resolve_package_deps / fetch_package_conflicts ----
    op,           \* "none" | "deps" | "conflicts": the function being run
    pc,           \* position inside that function
    name,         \* argument `name`
    source,       \* argument `source`
    has_paru,     \* local `has_paru`
    has_yay,      \* local `has_yay`
    used_helper,  \* local `used_helper`
    deps,         \* local `deps`: Vec<DependencyInfo>
    ret,          \* the value returned (Null until the function returns)
    log,          \* the external commands issued so far, with their status
    dropped       \* history: the names the self-reference and .so filters dropped

depVars == <<op, pc, name, source, has_paru, has_yay, used_helper, deps, ret, log, dropped>>

VARIABLES
    \* ---- one call of resolve_file_changes, or of a per-package resolver ----
    fpc,              \* position inside the file resolver
    caller,           \* "loop": called from resolve_file_changes; "direct" otherwise
    items,            \* argument `items` of resolve_file_changes
    action,           \* argument `action`: "Install" | "Remove"
    idx,              \* loop index of `for (idx, item) in items.iter().enumerate()`
    results,          \* local `results` / the Vec returned
    cache,            \* local `batched_remote_files_cache`: package name -> file list
    groups_left,      \* batch_get_remote_file_lists: repo groups not yet started
    cur_group,        \* batch_get_remote_file_lists: the group being chunked
    item,             \* the package being resolved: [name, source]
    remote_files,     \* local `remote_files`
    installed_files,  \* local `installed_files`
    backup_files,     \* local `backup_files`
    fl_has_paru,      \* get_remote_file_list: local `has_paru`
    fl_has_yay,       \* get_remote_file_list: local `has_yay`
    item_ret,         \* Result<PackageFileInfo, String> of the per-package resolver
    rm_ql_status,     \* history: how the pacman -Ql of resolve_remove_files ended
    pkgbuild_miss,    \* history: "none", or why the PKGBUILD fallback found no path
    srcinfo_backup,   \* history: while the PKGBUILD backup lookup of an AUR item
                      \* is pending, why its .SRCINFO gave no list; else "none"
    flog,             \* commands issued before the per-item loop (sync, batch)
    failed            \* positions of the items whose resolution returned Err

fileVars == <<fpc, caller, items, action, idx, results, cache, groups_left, cur_group,
              item, remote_files, installed_files, backup_files, fl_has_paru,
              fl_has_yay, item_ret, rm_ql_status, pkgbuild_miss, srcinfo_backup,
              flog, failed>>

VARIABLES
    \* ---- one call of batch_fetch_official_deps, and the metadata it reads ----
    bpc,          \* "idle" | "chunk" | "done"
    b_names,      \* the names not yet queried
    result_map,   \* local `result_map`: package name -> dep_names
    metadata,     \* the "Depends On" list the sync database holds per package
    b_input,      \* history: the `names` the call was made with
    b_log         \* history: the `pacman -Si <chunk>` queries issued, in order

batchVars == <<bpc, b_names, result_map, metadata, b_input, b_log>>

VARIABLES
    \* ---- the preflight session of AppState ----
    preflight_cancelled,  \* the shared cancellation flag
    stage,                \* stage -> "Idle" | "Resolving" | "Resolved" | "Cancelled"
    session,              \* <<>> or <<signature>>: the request the stages work for
    valid,                \* FALSE once the resolved results were invalidated
    instance,             \* history: number of requests that were accepted
    requests,             \* history: number of requests that were made
    last_sig              \* history: <<>> or <<signature>> of the latest request

preflightVars == <<preflight_cancelled, stage, session, valid, instance, requests,
                   last_sig>>

VARIABLES
    \* ---- one call of choose_terminal_index_prefer_path ----
    tpc,       \* "idle" | "done"
    t_terms,   \* the preference list `terms` (binary names)
    t_path,    \* $PATH: <<>> when unset, else <<dirs>>, dirs a sequence of directories
    t_ret      \* the Option<usize> returned: <<>> or <<i>>, i counted from 0

terminalVars == <<tpc, t_terms, t_path, t_ret>>

VARIABLES
    \* ---- the official index, its refresher and its enricher ----
    official_index,  \* OFFICIAL_INDEX.pkgs: package name -> its fields
    upc,             \* update_in_background: "idle" | "merge" | "replace"
    u_new,           \* new_pkgs, as fetched
    u_merged,        \* merged
    u_different,     \* different
    epc,             \* request_enrich_for: "idle" | "apply"
    e_desc_map       \* desc_map: name -> <<desc, arch, repo, version>>

indexVars == <<official_index, upc, u_new, u_merged, u_different, epc, e_desc_map>>

\* What the steps of one resolver leave alone: the state of the others.
nonDepVars == <<fileVars, batchVars, preflightVars, terminalVars, indexVars>>
nonFileVars == <<depVars, batchVars, preflightVars, terminalVars, indexVars>>
nonBatchVars == <<depVars, fileVars, preflightVars, terminalVars, indexVars>>
nonPreflightVars == <<depVars, fileVars, batchVars, terminalVars, indexVars>>
nonTerminalVars == <<depVars, fileVars, batchVars, preflightVars, indexVars>>
nonIndexVars == <<depVars, fileVars, batchVars, preflightVars, terminalVars>>

(***************************************************************************)
(* Bounds of the model.                                                    *)
(***************************************************************************)
MaxDeps == 2        \* longest dependency list a backend reports
MaxConflicts == 2   \* longest conflict list a backend reports
MaxFiles == 2       \* longest file list a backend reports for one package
MaxItems == 2       \* most packages in one resolve_file_changes call
MaxItemFiles == 1   \* longest file list per package inside a multi-package call
MaxBatchNames == 2  \* most names in one batch_fetch_official_deps call
MaxRequests == 3    \* most preflight requests in one run
MaxChunks == 2      \* most full chunks in one batch_fetch_official_deps call
MaxTerms == 2       \* longest terminal preference list
MaxPathDirs == 2    \* most directories in $PATH

Null == [none |-> TRUE]

SeqsUpTo(S, n) == UNION {[1..k -> S] : k \in 0..n}

Range(q) == {q[i] : i \in 1..Len(q)}

(***************************************************************************)
(* Strings.                                                                *)
(***************************************************************************)
StartsWith(s, pre) ==
    /\ Len(s) >= Len(pre)
    /\ SubSeq(s, 1, Len(pre)) = pre

EndsWith(s, suf) ==
    /\ Len(s) >= Len(suf)
    /\ SubSeq(s, Len(s) - Len(suf) + 1, Len(s)) = suf

Contains(s, sub) ==
    \E i \in 1..(Len(s) - Len(sub) + 1) : SubSeq(s, i, i + Len(sub) - 1) = sub

\* Package names and dependency tokens used as inputs.
Pkg     == <<"p", "k", "g">>
Dep1    == <<"d", "e", "p", "1">>
PkgVer  == <<"p", "k", "g", ">", "=", "1">>
Other   == <<"o", ">", "=", "1", ".", "2">>
LibSo   == <<"l", ".", "s", "o">>
LibSoV  == <<"l", ".", "s", "o", ".", "6">>
LibSoEq == <<"l", ".", "s", "o", "=", "6">>
MkDep   == <<"m", "k">>

PkgNames  == {Pkg, Dep1}
TokenPool == {Pkg, Dep1, PkgVer, Other, LibSo, LibSoV, LibSoEq}
\* The makedepends / checkdepends / optdepends lists a .SRCINFO may hold.
BuildLists == {<<>>, <<MkDep>>}
ConflictPool == {Dep1, <<"o">>}

Sources == {[kind |-> "Official", repo |-> "local"],
            [kind |-> "Official", repo |-> "extra"],
            [kind |-> "Aur"]}

(***************************************************************************)
(* parse_dep_spec: "foo>=1.2" -> ("foo", ">=1.2"); "foo" -> ("foo", "").   *)
(* The token is split in front of its first comparison character.          *)
(***************************************************************************)
OpChars == {"<", ">", "="}

parse_dep_spec(spec) ==
    LET hits == {i \in 1..Len(spec) : spec[i] \in OpChars}
    IN  IF hits = {}
        THEN <<spec, <<>>>>
        ELSE LET pos == CHOOSE i \in hits : \A j \in hits : i <= j
             IN  <<SubSeq(spec, 1, pos - 1), SubSeq(spec, pos, Len(spec))>>

\* `pkg_name == name`: the dependency is the package itself.
IsSelfReference(pkg_name, n) == pkg_name = n

\* Mutant: only the ".so" suffix is tested.
IsVirtualSo_SuffixOnly(pkg_name) == EndsWith(pkg_name, <<".", "s", "o">>)

\* ends_with(".so") || contains(".so.") || contains(".so="): a shared-library
\* pseudo-dependency.
IsVirtualSo(pkg_name) ==
    \/ EndsWith(pkg_name, <<".", "s", "o">>)
    \/ Contains(pkg_name, <<".", "s", "o", ".">>)
    \/ Contains(pkg_name, <<".", "s", "o", "=">>)

DependencyInfo(pkg_name, version_req, n) ==
    [name |-> pkg_name, version |-> version_req, required_by |-> <<n>>]

\* The loop `for dep_spec in dep_names { ... deps.push(..) }` shared by the
\* pacman -Qi, pacman -Si, paru -Si and yay -Si branches.
RECURSIVE ProcessDepSpecs(_, _)
ProcessDepSpecs(dep_names, n) ==
    IF dep_names = <<>>
    THEN <<>>
    ELSE LET parsed == parse_dep_spec(Head(dep_names))
             rest   == ProcessDepSpecs(Tail(dep_names), n)
         IN  IF IsSelfReference(parsed[1], n) \/ IsVirtualSo(parsed[1])
             THEN rest
             ELSE <<DependencyInfo(parsed[1], parsed[2], n)>> \o rest

DepNames(ds) == {ds[i].name : i \in 1..Len(ds)}

\* The names of `dep_names` that the two `continue` filters skip.
Filtered(dep_names, n) ==
    {parse_dep_spec(dep_names[i])[1] : i \in
        {j \in 1..Len(dep_names) :
            LET pkg_name == parse_dep_spec(dep_names[j])[1]
            IN  IsSelfReference(pkg_name, n) \/ IsVirtualSo(pkg_name)}}

\* Mutant: the merge loop without its `if pkg_name == name { continue; }`.
RECURSIVE MergeSrcinfoDepends_KeepsSelf(_, _, _)
MergeSrcinfoDepends_KeepsSelf(srcinfo_depends, existing_dep_names, n) ==
    IF srcinfo_depends = <<>>
    THEN <<>>
    ELSE LET parsed == parse_dep_spec(Head(srcinfo_depends))
             rest   == MergeSrcinfoDepends_KeepsSelf(Tail(srcinfo_depends),
                                                     existing_dep_names, n)
         IN  IF IsVirtualSo(parsed[1])
             THEN rest
             ELSE IF parsed[1] \notin existing_dep_names
                  THEN <<DependencyInfo(parsed[1], parsed[2], n)>> \o rest
                  ELSE rest

\* The merge loop over `srcinfo_depends`: `existing_dep_names` is computed once,
\* before the loop, from the helper-derived list.
RECURSIVE MergeSrcinfoDepends(_, _, _)
MergeSrcinfoDepends(srcinfo_depends, existing_dep_names, n) ==
    IF srcinfo_depends = <<>>
    THEN <<>>
    ELSE LET parsed == parse_dep_spec(Head(srcinfo_depends))
             rest   == MergeSrcinfoDepends(Tail(srcinfo_depends), existing_dep_names, n)
         IN  IF IsSelfReference(parsed[1], n) \/ IsVirtualSo(parsed[1])
             THEN rest
             ELSE IF parsed[1] \notin existing_dep_names
                  THEN <<DependencyInfo(parsed[1], parsed[2], n)>> \o rest
                  ELSE rest

(***************************************************************************)
(* Outcomes of the external commands.                                      *)
(***************************************************************************)
\* A metadata query (pacman -Si/-Qi, paru -Si, yay -Si): it cannot be started,
\* or it runs and exits zero ("ok") or non-zero ("exit_fail"; stderr says "was
\* not found" or something else).  A command that ran has a stdout, whatever
\* its exit status: `dep_names` / `conflicts` is what parse_pacman_si_deps /
\* parse_pacman_si_conflicts would read from it.
SpawnErr == [status |-> "spawn_err", why |-> "-"]

ExitKinds == {[status |-> "ok", why |-> "-"],
              [status |-> "exit_fail", why |-> "not_found"],
              [status |-> "exit_fail", why |-> "other"]}

DepQueryOutcomes ==
    {SpawnErr}
    \cup {[status |-> k.status, why |-> k.why, dep_names |-> d] :
            k \in ExitKinds, d \in SeqsUpTo(TokenPool, MaxDeps)}

ConflictQueryOutcomes ==
    {SpawnErr}
    \cup {[status |-> k.status, why |-> k.why, conflicts |-> c] :
            k \in ExitKinds, c \in SeqsUpTo(ConflictPool, MaxConflicts)}

\* fetch_srcinfo + parse_srcinfo_deps / parse_srcinfo_conflicts.
SrcinfoDepOutcomes ==
    {[status |-> "fetch_err", why |-> "-"]}
    \cup {[status |-> "ok", why |-> "-", depends |-> d, makedepends |-> m,
           checkdepends |-> c, optdepends |-> o] :
            d \in SeqsUpTo(TokenPool, MaxDeps),
            m \in BuildLists, c \in BuildLists, o \in BuildLists}

SrcinfoConflictOutcomes ==
    {[status |-> "fetch_err", why |-> "-"]}
    \cup {[status |-> "ok", why |-> "-", conflicts |-> c] : c \in SeqsUpTo(ConflictPool, MaxConflicts)}

Issued(cmd, out) == [cmd |-> cmd, status |-> out.status, why |-> out.why]

Ok(v)  == [ok |-> TRUE, value |-> v]
Err(e) == [ok |-> FALSE, error |-> e]

DepsInit ==
    /\ op = "none"
    /\ pc = "idle"
    /\ name = <<>>
    /\ source = Null
    /\ has_paru = FALSE
    /\ has_yay = FALSE
    /\ used_helper = FALSE
    /\ deps = <<>>
    /\ ret = Null
    /\ log = <<>>
    /\ dropped = {}

(***************************************************************************)
(* resolve_package_deps                                                    *)
(***************************************************************************)
\* Entry: `let mut deps = Vec::new(); match source { ... }`.
ResolvePackageDeps(n, s) ==
    /\ pc = "idle"
    /\ op' = "deps"
    /\ name' = n
    /\ source' = s
    /\ deps' = <<>>
    /\ used_helper' = FALSE
    /\ has_paru' = FALSE
    /\ has_yay' = FALSE
    /\ ret' = Null
    /\ log' = <<>>
    /\ dropped' = {}
    /\ pc' = IF s.kind = "Official"
             THEN IF s.repo = "local" THEN "pacman_qi" ELSE "pacman_si"
             ELSE "probe_paru"
    /\ UNCHANGED nonDepVars

\* Mutant: a non-zero exit of pacman -Qi is returned as an error.
LocalQiResult_ErrOnExitFailure(out, n) ==
    CASE out.status = "spawn_err" -> Err(<<"pacman -Qi failed", n>>)
      [] out.status = "exit_fail" -> Err(<<"pacman -Qi failed for", n>>)
      [] OTHER -> Ok(ProcessDepSpecs(out.dep_names, n))

\* What the `repo == "local"` branch returns for an outcome of pacman -Qi:
\* `.map_err(..)?` when it cannot be run; "Local package might not exist
\* anymore, return empty deps" on any non-zero exit; the processed list else.
LocalQiResult(out, n) ==
    CASE out.status = "spawn_err" -> Err(<<"pacman -Qi failed", n>>)
      [] out.status = "exit_fail" -> Ok(<<>>)
      [] OTHER -> Ok(ProcessDepSpecs(out.dep_names, n))

\* Official, repo == "local": pacman -Qi.
DepsLocalQi(out) ==
    /\ op = "deps" /\ pc = "pacman_qi"
    /\ log' = Append(log, Issued("pacman -Qi", out))
    /\ pc' = "done"
    /\ ret' = LocalQiResult(out, name)
    /\ deps' = IF out.status = "ok" THEN ret'.value ELSE deps
    /\ dropped' = dropped \cup (IF out.status = "ok" THEN Filtered(out.dep_names, name) ELSE {})
    /\ UNCHANGED <<op, name, source, has_paru, has_yay, used_helper>>
    /\ UNCHANGED nonDepVars

\* Mutant: a non-zero exit of pacman -Si gives the empty list, as for -Qi.
RemoteSiResult_SwallowsExitFailure(out, n) ==
    CASE out.status = "spawn_err" -> Err(<<"pacman -Si failed", n>>)
      [] out.status = "exit_fail" -> Ok(<<>>)
      [] OTHER -> Ok(ProcessDepSpecs(out.dep_names, n))

\* What the remote branch returns for an outcome of pacman -Si:
\* `.map_err(..)?`, `return Err(format!("pacman -Si failed for {}: {}", ..))`
\* on a non-zero exit, the processed list else.
RemoteSiResult(out, n) ==
    CASE out.status = "spawn_err" -> Err(<<"pacman -Si failed", n>>)
      [] out.status = "exit_fail" -> Err(<<"pacman -Si failed for", n>>)
      [] OTHER -> Ok(ProcessDepSpecs(out.dep_names, n))

\* Official, any other repo: pacman -Si <name>.
DepsRemoteSi(out) ==
    /\ op = "deps" /\ pc = "pacman_si"
    /\ log' = Append(log, Issued("pacman -Si", out))
    /\ pc' = "done"
    /\ ret' = RemoteSiResult(out, name)
    /\ deps' = IF out.status = "ok" THEN ret'.value ELSE deps
    /\ dropped' = dropped \cup (IF out.status = "ok" THEN Filtered(out.dep_names, name) ELSE {})
    /\ UNCHANGED <<op, name, source, has_paru, has_yay, used_helper>>
    /\ UNCHANGED nonDepVars

\* AUR: `paru --version` then `yay --version`; is_ok() is "could be started".
AfterProbes(paru, yay) ==
    IF paru THEN "paru_si" ELSE IF yay THEN "yay_si" ELSE "srcinfo"

DepsProbeHelpers(paru, yay) ==
    /\ op = "deps" /\ pc = "probe_paru"
    /\ has_paru' = paru
    /\ has_yay' = yay
    /\ log' = log \o <<[cmd |-> "paru --version",
                        status |-> IF paru THEN "ok" ELSE "spawn_err", why |-> "-"],
                       [cmd |-> "yay --version",
                        status |-> IF yay THEN "ok" ELSE "spawn_err", why |-> "-"]>>
    /\ pc' = AfterProbes(paru, yay)
    /\ UNCHANGED <<dropped, op, name, source, used_helper, deps, ret>>
    /\ UNCHANGED nonDepVars

\* A helper's -Si output is used when the command succeeded and its
\* dependency list is not empty.
HelperUsable(out) == out.status = "ok" /\ out.dep_names # <<>>

\* Mutant: yay is queried whenever it is installed.
AfterParu_IgnoresUsedHelper(used, yay) ==
    IF yay THEN "yay_si" ELSE "srcinfo"

\* `if !used_helper && has_yay { yay -Si }`, else on to the .SRCINFO merge.
AfterParu(used, yay) ==
    IF ~used /\ yay THEN "yay_si" ELSE "srcinfo"

\* `if has_paru { match Command::new("paru").args(["-Si", name]) ... }`
DepsParuSi(out) ==
    /\ op = "deps" /\ pc = "paru_si"
    /\ log' = Append(log, Issued("paru -Si", out))
    /\ used_helper' = HelperUsable(out)
    /\ deps' = IF HelperUsable(out)
               THEN deps \o ProcessDepSpecs(out.dep_names, name)
               ELSE deps
    /\ pc' = AfterParu(HelperUsable(out), has_yay)
    /\ dropped' = dropped \cup (IF HelperUsable(out) THEN Filtered(out.dep_names, name) ELSE {})
    /\ UNCHANGED <<op, name, source, has_paru, has_yay, ret>>
    /\ UNCHANGED nonDepVars

\* `if !used_helper && has_yay { match Command::new("yay") ... }`
DepsYaySi(out) ==
    /\ op = "deps" /\ pc = "yay_si"
    /\ log' = Append(log, Issued("yay -Si", out))
    /\ used_helper' = HelperUsable(out)
    /\ deps' = IF HelperUsable(out)
               THEN deps \o ProcessDepSpecs(out.dep_names, name)
               ELSE deps
    /\ pc' = "srcinfo"
    /\ dropped' = dropped \cup (IF HelperUsable(out) THEN Filtered(out.dep_names, name) ELSE {})
    /\ UNCHANGED <<op, name, source, has_paru, has_yay, ret>>
    /\ UNCHANGED nonDepVars

\* Mutant: `fetch_srcinfo(name)?`, the fetch error is propagated.
AurSrcinfoResult_PropagatesFetchError(out, ds, n) ==
    IF out.status = "ok"
    THEN Ok(ds \o MergeSrcinfoDepends(out.depends, DepNames(ds), n))
    ELSE Err(<<"fetch .SRCINFO failed", n>>)

\* Mutant: the makedepends, checkdepends and optdepends are merged as well.
AurSrcinfoResult_MergesBuildDeps(out, ds, n) ==
    IF out.status = "ok"
    THEN Ok(ds \o MergeSrcinfoDepends(out.depends \o out.makedepends
                                          \o out.checkdepends \o out.optdepends,
                                      DepNames(ds), n))
    ELSE Ok(ds)

\* What the AUR branch returns after fetch_srcinfo: the helper-derived list,
\* extended by the merged `depends` of the .SRCINFO when it was fetched; a
\* failed fetch is only logged.
AurSrcinfoResult(out, ds, n) ==
    IF out.status = "ok"
    THEN Ok(ds \o MergeSrcinfoDepends(out.depends, DepNames(ds), n))
    ELSE Ok(ds)

\* The names parse_srcinfo_deps returns as makedepends, checkdepends and
\* optdepends.
BuildOnlyNames(out) ==
    IF out.status = "ok"
    THEN {parse_dep_spec(t)[1] :
            t \in Range(out.makedepends \o out.checkdepends \o out.optdepends)}
    ELSE {}

\* History: the .SRCINFO fetch of resolve_package_deps, with the names of its
\* build-time and optional categories.
IssuedSrcinfo(out) ==
    [cmd |-> "fetch .SRCINFO", status |-> out.status, why |-> out.why,
     build_names |-> BuildOnlyNames(out)]

\* `match fetch_srcinfo(name) { Ok(..) => merge depends, Err(e) => warn }`,
\* then `Ok(deps)`.
DepsSrcinfo(out) ==
    /\ op = "deps" /\ pc = "srcinfo"
    /\ log' = Append(log, IssuedSrcinfo(out))
    /\ ret' = AurSrcinfoResult(out, deps, name)
    /\ deps' = IF ret'.ok THEN ret'.value ELSE deps
    /\ pc' = "done"
    /\ dropped' = dropped \cup (IF out.status = "ok" THEN Filtered(out.depends, name) ELSE {})
    /\ UNCHANGED <<op, name, source, has_paru, has_yay, used_helper>>
    /\ UNCHANGED nonDepVars

(***************************************************************************)
(* fetch_package_conflicts                                                 *)
(***************************************************************************)
\* `if let Ok(output) = ... && output.status.success()`: the parsed
\* "Conflicts With" list of a query that ran and exited zero.
\* Mutant: `output.status.success()` is not tested.
QuerySucceeded_IgnoresExitStatus(out) == out.status \in {"ok", "exit_fail"}

QuerySucceeded(out) == out.status = "ok"

\* `if let Ok(output) = .. && output.status.success() { return parse(..) }`
\* followed by `Vec::new()`.
ConflictsOrEmpty(out) == IF QuerySucceeded(out) THEN out.conflicts ELSE <<>>

FetchPackageConflicts(n, s) ==
    /\ pc = "idle"
    /\ op' = "conflicts"
    /\ name' = n
    /\ source' = s
    /\ deps' = <<>>
    /\ used_helper' = FALSE
    /\ has_paru' = FALSE
    /\ has_yay' = FALSE
    /\ ret' = Null
    /\ log' = <<>>
    /\ dropped' = {}
    /\ pc' = IF s.kind = "Official"
             THEN IF s.repo = "local" THEN "pacman_qi" ELSE "pacman_si"
             ELSE "probe_paru"
    /\ UNCHANGED nonDepVars

\* Official, repo == "local": pacman -Qi, else `return Vec::new()`.
ConfLocalQi(out) ==
    /\ op = "conflicts" /\ pc = "pacman_qi"
    /\ log' = Append(log, Issued("pacman -Qi", out))
    /\ ret' = ConflictsOrEmpty(out)
    /\ pc' = "done"
    /\ UNCHANGED <<dropped, op, name, source, has_paru, has_yay, used_helper, deps>>
    /\ UNCHANGED nonDepVars

\* Official, any other repo: pacman -Si, else `Vec::new()`.
ConfRemoteSi(out) ==
    /\ op = "conflicts" /\ pc = "pacman_si"
    /\ log' = Append(log, Issued("pacman -Si", out))
    /\ ret' = ConflictsOrEmpty(out)
    /\ pc' = "done"
    /\ UNCHANGED <<dropped, op, name, source, has_paru, has_yay, used_helper, deps>>
    /\ UNCHANGED nonDepVars

ConfProbeHelpers(paru, yay) ==
    /\ op = "conflicts" /\ pc = "probe_paru"
    /\ has_paru' = paru
    /\ has_yay' = yay
    /\ log' = log \o <<[cmd |-> "paru --version",
                        status |-> IF paru THEN "ok" ELSE "spawn_err", why |-> "-"],
                       [cmd |-> "yay --version",
                        status |-> IF yay THEN "ok" ELSE "spawn_err", why |-> "-"]>>
    /\ pc' = AfterProbes(paru, yay)
    /\ UNCHANGED <<dropped, op, name, source, used_helper, deps, ret>>
    /\ UNCHANGED nonDepVars

\* Mutant: a helper's conflict list is returned whenever the query succeeded.
HelperConflictsUsable_AnySuccess(out) ==
    QuerySucceeded(out)

\* A helper's conflict list is returned when the query succeeded and the list
\* is not empty.
HelperConflictsUsable(out) ==
    QuerySucceeded(out) /\ out.conflicts # <<>>

\* History: a query of an AUR conflict source, with the list it gave.
IssuedConflicts(cmd, out) ==
    [cmd |-> cmd, status |-> out.status, why |-> out.why,
     listed |-> ConflictsOrEmpty(out)]

\* `if has_paru { ... if !conflicts.is_empty() { return conflicts; } }`
ConfParuSi(out) ==
    /\ op = "conflicts" /\ pc = "paru_si"
    /\ log' = Append(log, IssuedConflicts("paru -Si", out))
    /\ IF HelperConflictsUsable(out)
       THEN /\ ret' = out.conflicts
            /\ pc' = "done"
       ELSE /\ ret' = ret
            /\ pc' = IF has_yay THEN "yay_si" ELSE "srcinfo"
    /\ UNCHANGED <<dropped, op, name, source, has_paru, has_yay, used_helper, deps>>
    /\ UNCHANGED nonDepVars

\* `if has_yay { ... if !conflicts.is_empty() { return conflicts; } }`
ConfYaySi(out) ==
    /\ op = "conflicts" /\ pc = "yay_si"
    /\ log' = Append(log, IssuedConflicts("yay -Si", out))
    /\ IF HelperConflictsUsable(out)
       THEN /\ ret' = out.conflicts
            /\ pc' = "done"
       ELSE /\ ret' = ret
            /\ pc' = "srcinfo"
    /\ UNCHANGED <<dropped, op, name, source, has_paru, has_yay, used_helper, deps>>
    /\ UNCHANGED nonDepVars

\* `if let Ok(srcinfo_text) = fetch_srcinfo(name) { return parse(..) }`,
\* else `Vec::new()`.
ConfSrcinfo(out) ==
    /\ op = "conflicts" /\ pc = "srcinfo"
    /\ log' = Append(log, IssuedConflicts("fetch .SRCINFO", out))
    /\ ret' = ConflictsOrEmpty(out)
    /\ pc' = "done"
    /\ UNCHANGED <<dropped, op, name, source, has_paru, has_yay, used_helper, deps>>
    /\ UNCHANGED nonDepVars

\* The caller takes the returned value; the resolver can be called again.
Return ==
    /\ pc = "done"
    /\ pc' = "idle"
    /\ op' = "none"
    /\ UNCHANGED <<dropped, name, source, has_paru, has_yay, used_helper, deps, ret, log>>
    /\ UNCHANGED nonDepVars

(***************************************************************************)
(* File-change resolver (src/logic/files.rs): data and pure parts.         *)
(***************************************************************************)
\* Characters in byte order, for `a.path.cmp(&b.path)`.
ByteOrder == <<"$", "-", ".", "/", "a", "b", "c", "d", "e", "g", "h", "i",
               "k", "n", "p", "r", "s", "t", "u", "x">>

CharCode(c) == CHOOSE i \in 1..Len(ByteOrder) : ByteOrder[i] = c

\* a <= b in the lexicographic byte order of str::cmp.
RECURSIVE PathLeq(_, _)
PathLeq(a, b) ==
    IF a = <<>> THEN TRUE
    ELSE IF b = <<>> THEN FALSE
    ELSE IF Head(a) = Head(b) THEN PathLeq(Tail(a), Tail(b))
    ELSE CharCode(Head(a)) < CharCode(Head(b))

EtcConf  == <<"/", "e", "t", "c", "/", "c">>
EtcDir   == <<"/", "e", "t", "c", "/", "d", "/">>
UsrBin   == <<"/", "u", "s", "r", "/", "b">>
RelConf  == <<"e", "t", "c", "/", "c">>

PathPool == {EtcConf, EtcDir, UsrBin}

\* The backup arrays a backend may report.
BackupLists == {<<>>, <<EtcConf>>, <<RelConf>>, <<UsrBin, EtcConf>>}

FileLists(L) == SeqsUpTo(PathPool, L)

Official(repo) == [kind |-> "Official", repo |-> repo]
Aur == [kind |-> "Aur"]

Actions == {"Install", "Remove"}
PackageItem(n, s) == [name |-> n, source |-> s]

\* The packages a per-package resolver is called for.
PackageItems == {PackageItem(Pkg, Official("extra")), PackageItem(Pkg, Aur)}

\* The packages the item lists of resolve_file_changes are made of.
ListedItems == {PackageItem(Pkg, Official("core")), PackageItem(Dep1, Official("core")),
                PackageItem(Dep1, Official("extra")), PackageItem(Pkg, Aur)}

\* `path.starts_with("/etc/")`
IsConfig(path) == StartsWith(path, <<"/", "e", "t", "c", "/">>)

\* `path.ends_with('/')`
IsDir(path) == EndsWith(path, <<"/">>)

FileChange(path, change_type, package, is_config, pacnew, pacsave) ==
    [path |-> path, change_type |-> change_type, package |-> package,
     is_config |-> is_config,
     predicted_pacnew |-> pacnew, predicted_pacsave |-> pacsave]

\* `file_changes.sort_by(|a, b| a.path.cmp(&b.path))`: a stable sort by path.
RECURSIVE InsertByPath(_, _)
InsertByPath(fc, sorted) ==
    IF sorted = <<>> THEN <<fc>>
    ELSE IF PathLeq(Head(sorted).path, fc.path)
         THEN <<Head(sorted)>> \o InsertByPath(fc, Tail(sorted))
         ELSE <<fc>> \o sorted

\* Mutant: the records are returned in the order they were pushed.
SortByPath_KeepsOrder(fcs) ==
    fcs

RECURSIVE SortByPath(_)
SortByPath(fcs) ==
    IF fcs = <<>> THEN <<>>
    ELSE InsertByPath(fcs[Len(fcs)], SortByPath(SubSeq(fcs, 1, Len(fcs) - 1)))

\* Variant: the prediction does not look at the installed file set.
PredictPacnew_IgnoresInstalled(path, backup_set, installed_set) ==
    path \in backup_set /\ IsConfig(path)

\* `backup_set.contains(path) && installed_set.contains(path) && is_config`
PredictPacnew(path, backup_set, installed_set) ==
    path \in backup_set /\ path \in installed_set /\ IsConfig(path)

\* `backup_set.contains(path) && is_config`
PredictPacsave(path, backup_set) ==
    path \in backup_set /\ IsConfig(path)

Bump(b) == IF b THEN 1 ELSE 0

\* The locals of resolve_install_files_with_remote_list before its loop.
InstallAcc0 ==
    [file_changes |-> <<>>, new_count |-> 0, changed_count |-> 0,
     config_count |-> 0, pacnew_candidates |-> 0]

\* Mutant: a path counts as changed when it is a backup file.
InstallStep_ChangedIfBackedUp(n, path, installed_set, backup_set, acc) ==
    LET is_config == IsConfig(path)
        changed == path \in backup_set
        predicted_pacnew == PredictPacnew(path, backup_set, installed_set)
    IN  [file_changes |->
            Append(acc.file_changes,
                   FileChange(path, IF changed THEN "Changed" ELSE "New", n,
                              is_config, predicted_pacnew, FALSE)),
         new_count |-> acc.new_count + Bump(~changed),
         changed_count |-> acc.changed_count + Bump(changed),
         config_count |-> acc.config_count + Bump(is_config),
         pacnew_candidates |-> acc.pacnew_candidates + Bump(predicted_pacnew)]

\* One iteration of `for path in remote_files` for a path that is not a
\* directory: the counters are incremented and the record is pushed.
InstallStep(n, path, installed_set, backup_set, acc) ==
    LET is_config == IsConfig(path)
        changed == path \in installed_set
        predicted_pacnew == PredictPacnew(path, backup_set, installed_set)
    IN  [file_changes |->
            Append(acc.file_changes,
                   FileChange(path, IF changed THEN "Changed" ELSE "New", n,
                              is_config, predicted_pacnew, FALSE)),
         new_count |-> acc.new_count + Bump(~changed),
         changed_count |-> acc.changed_count + Bump(changed),
         config_count |-> acc.config_count + Bump(is_config),
         pacnew_candidates |-> acc.pacnew_candidates + Bump(predicted_pacnew)]

\* Variant: the config counter is incremented before directories are skipped.
RECURSIVE InstallLoop_CountsConfigBeforeSkip(_, _, _, _, _)
InstallLoop_CountsConfigBeforeSkip(n, remote, installed_set, backup_set, acc) ==
    IF remote = <<>> THEN acc
    ELSE InstallLoop_CountsConfigBeforeSkip(
             n, Tail(remote), installed_set, backup_set,
             IF IsDir(Head(remote))
             THEN [acc EXCEPT !.config_count = @ + Bump(IsConfig(Head(remote)))]
             ELSE InstallStep(n, Head(remote), installed_set, backup_set, acc))

\* The loop `for path in remote_files`: `if is_dir { continue; }`.
RECURSIVE InstallLoop(_, _, _, _, _)
InstallLoop(n, remote, installed_set, backup_set, acc) ==
    IF remote = <<>> THEN acc
    ELSE InstallLoop(n, Tail(remote), installed_set, backup_set,
                     IF IsDir(Head(remote))
                     THEN acc
                     ELSE InstallStep(n, Head(remote), installed_set, backup_set, acc))

\* resolve_install_files_with_remote_list, once the installed file list and
\* the backup files are known.
InstallFileInfo(n, remote, installed, backup) ==
    LET acc == InstallLoop(n, remote, Range(installed), Range(backup), InstallAcc0)
    IN  [name |-> n,
         files |-> SortByPath(acc.file_changes),
         total_count |-> acc.new_count + acc.changed_count,
         new_count |-> acc.new_count,
         changed_count |-> acc.changed_count,
         removed_count |-> 0,
         config_count |-> acc.config_count,
         pacnew_candidates |-> acc.pacnew_candidates,
         pacsave_candidates |-> 0]

\* The locals of resolve_remove_files before its loop.
RemoveAcc0 == [file_changes |-> <<>>, config_count |-> 0, pacsave_candidates |-> 0]

\* One iteration of `for path in installed_files` for a path that is not a
\* directory.
RemoveStep(n, path, backup_set, acc) ==
    LET is_config == IsConfig(path)
        predicted_pacsave == PredictPacsave(path, backup_set)
    IN  [file_changes |->
            Append(acc.file_changes,
                   FileChange(path, "Removed", n, is_config, FALSE, predicted_pacsave)),
         config_count |-> acc.config_count + Bump(is_config),
         pacsave_candidates |-> acc.pacsave_candidates + Bump(predicted_pacsave)]

\* Mutant: the loop without its `if is_dir { continue; }`.
RECURSIVE RemoveLoop_KeepsDirectories(_, _, _, _)
RemoveLoop_KeepsDirectories(n, installed, backup_set, acc) ==
    IF installed = <<>> THEN acc
    ELSE RemoveLoop_KeepsDirectories(n, Tail(installed), backup_set,
                                     RemoveStep(n, Head(installed), backup_set, acc))

\* The loop `for path in installed_files`: `if is_dir { continue; }`.
RECURSIVE RemoveLoop(_, _, _, _)
RemoveLoop(n, installed, backup_set, acc) ==
    IF installed = <<>> THEN acc
    ELSE RemoveLoop(n, Tail(installed), backup_set,
                    IF IsDir(Head(installed))
                    THEN acc
                    ELSE RemoveStep(n, Head(installed), backup_set, acc))

\* resolve_remove_files, once the installed file list and the backup files
\* are known: `let removed_count = file_changes.len();`.
RemoveFileInfo(n, installed, backup) ==
    LET acc == RemoveLoop(n, installed, Range(backup), RemoveAcc0)
    IN  [name |-> n,
         files |-> SortByPath(acc.file_changes),
         total_count |-> Len(acc.file_changes),
         new_count |-> 0,
         changed_count |-> 0,
         removed_count |-> Len(acc.file_changes),
         config_count |-> acc.config_count,
         pacnew_candidates |-> 0,
         pacsave_candidates |-> acc.pacsave_candidates]

\* "Create empty entry to maintain package order"
EmptyFileInfo(n) ==
    [name |-> n, files |-> <<>>, total_count |-> 0, new_count |-> 0,
     changed_count |-> 0, removed_count |-> 0, config_count |-> 0,
     pacnew_candidates |-> 0, pacsave_candidates |-> 0]

\* `files.sort(); files.dedup();` of parse_install_paths_from_pkgbuild.
RECURSIVE InsertPath(_, _)
InsertPath(p, sorted) ==
    IF sorted = <<>> THEN <<p>>
    ELSE IF Head(sorted) = p THEN sorted
    ELSE IF PathLeq(Head(sorted), p)
         THEN <<Head(sorted)>> \o InsertPath(p, Tail(sorted))
         ELSE <<p>> \o sorted

RECURSIVE SortDedup(_)
SortDedup(ps) ==
    IF ps = <<>> THEN <<>> ELSE InsertPath(Head(ps), SortDedup(Tail(ps)))

\* Mutant: no default paths are inferred from the package name.
InstallPathsFromPkgbuild_NoGuess(extracted, pkgname) ==
    SortDedup(extracted)

\* parse_install_paths_from_pkgbuild, given the destination paths its scan of
\* the package() functions extracted: sorted, deduplicated, and replaced by
\* /usr/bin/<pkgname>, /usr/share/<pkgname> when there are none.
InstallPathsFromPkgbuild(extracted, pkgname) ==
    LET files == SortDedup(extracted)
    IN  IF files = <<>>
        THEN <<<<"/", "u", "s", "r", "/", "b", "i", "n", "/">> \o pkgname,
               <<"/", "u", "s", "r", "/", "s", "h", "a", "r", "e", "/">> \o pkgname>>
        ELSE files

(***************************************************************************)
(* File-change resolver: outcomes of the external commands.                *)
(***************************************************************************)
Failed(why) == [status |-> "exit_fail", why |-> why]

\* pacman -Fl <spec>: stderr of a failure may say that the database file
\* does not exist.
RemoteListOutcomes(L) ==
    {SpawnErr, Failed("db_missing"), Failed("other")}
    \cup {[status |-> "ok", why |-> "-", files |-> f] : f \in FileLists(L)}

\* pacman -Ql <name>: stderr of a failure may say "was not found".
InstalledListOutcomes(L) ==
    {SpawnErr, Failed("not_found"), Failed("other")}
    \cup {[status |-> "ok", why |-> "-", files |-> f] : f \in FileLists(L)}

\* paru -Fl / yay -Fl <name>.
HelperListOutcomes(L) ==
    {SpawnErr, Failed("other")}
    \cup {[status |-> "ok", why |-> "-", files |-> f] : f \in FileLists(L)}

\* pacman -Qii <name> and its "Backup Files" field.
QiiOutcomes ==
    {SpawnErr, Failed("not_found"), Failed("other")}
    \cup {[status |-> "ok", why |-> "-", backup |-> b] : b \in BackupLists}

\* fetch_pkgbuild_sync + the destination paths the package() scan extracts.
PkgbuildPathOutcomes(L) ==
    {[status |-> "fetch_err", why |-> "-"]}
    \cup {[status |-> "ok", why |-> "-", extracted |-> f] : f \in FileLists(L)}

\* fetch_pkgbuild_sync + parse_backup_from_pkgbuild, and
\* fetch_srcinfo_sync + parse_backup_from_srcinfo.
BackupFetchOutcomes ==
    {[status |-> "fetch_err", why |-> "-"]}
    \cup {[status |-> "ok", why |-> "-", backup |-> b] : b \in BackupLists}

\* Whether a command ran and exited with status 0.
Outcome(out) == IF out.status = "ok" THEN "ok" ELSE "failed"

\* pacman -Fy.
SyncOutcomes == {SpawnErr, Failed("other"), [status |-> "ok", why |-> "-"]}

\* Age in days of the newest .files database: <<d>>, or <<>> when no
\* timestamp can be read.
DbAges == {<<>>, <<29>>, <<30>>}

MAX_AUTO_SYNC_AGE_DAYS == 30

BATCH_SIZE == 50

EmptyCache == [n \in {} |-> <<>>]

\* A batched pacman -Fl over `chunk`: the packages that have lines in the
\* output, each with its paths in output order.
BatchOutcomes(chunk, L) ==
    {SpawnErr, Failed("other")}
    \cup {[status |-> "ok", why |-> "-", pkg_files |-> pf] :
            pf \in UNION {[S -> FileLists(L) \ {<<>>}] : S \in SUBSET Range(chunk)}}

(***************************************************************************)
(* File-change resolver: state and steps.                                  *)
(***************************************************************************)
itemLocals == <<item, remote_files, installed_files, backup_files, fl_has_paru,
                fl_has_yay, item_ret, rm_ql_status, pkgbuild_miss,
                srcinfo_backup>>
loopVars == <<caller, items, action, idx, results, cache, groups_left, cur_group, flog,
             failed>>

FilesInit ==
    /\ fpc = "idle"
    /\ caller = "none"
    /\ items = <<>>
    /\ action = "Install"
    /\ idx = 1
    /\ results = <<>>
    /\ cache = EmptyCache
    /\ groups_left = {}
    /\ cur_group = Null
    /\ item = Null
    /\ remote_files = <<>>
    /\ installed_files = <<>>
    /\ backup_files = <<>>
    /\ fl_has_paru = FALSE
    /\ fl_has_yay = FALSE
    /\ item_ret = Null
    /\ rm_ql_status = "none"
    /\ pkgbuild_miss = "none"
    /\ srcinfo_backup = "none"
    /\ flog = <<>>
    /\ failed = {}

\* The locals of a per-package resolver when it is entered for `it` (Null:
\* no resolver is running, its locals are gone).
EnterItem(it) ==
    /\ item' = it
    /\ remote_files' = <<>>
    /\ installed_files' = <<>>
    /\ backup_files' = <<>>
    /\ fl_has_paru' = FALSE
    /\ fl_has_yay' = FALSE
    /\ item_ret' = Null
    /\ rm_ql_status' = "none"
    /\ pkgbuild_miss' = "none"
    /\ srcinfo_backup' = "none"

\* resolve_package_files: `match action { Install => resolve_install_files,
\* Remove => resolve_remove_files }`, and the `match source` that opens
\* get_remote_file_list.
FirstStep(it, act) ==
    IF act = "Remove" THEN "rm_ql"
    ELSE IF it.source.kind = "Official" THEN "fl" ELSE "aur_ql"

\* resolve_file_changes, entry: `if items.is_empty() { return Vec::new(); }`.
ResolveFileChanges(its, act) ==
    /\ fpc = "idle"
    /\ caller' = "loop"
    /\ items' = its
    /\ action' = act
    /\ idx' = 1
    /\ results' = <<>>
    /\ cache' = EmptyCache
    /\ groups_left' = {}
    /\ cur_group' = Null
    /\ flog' = <<>>
    /\ failed' = {}
    /\ EnterItem(Null)
    /\ fpc' = IF its = <<>> THEN "done" ELSE "sync"
    /\ UNCHANGED nonFileVars

\* is_file_db_stale: `Some(age_days >= max_age_days)`, None (<<>>) when the
\* timestamp is unknown.
IsFileDbStale(age, max_age_days) ==
    IF age = <<>> THEN <<>> ELSE <<age[1] >= max_age_days>>

\* The official items, grouped by repo, each group in item order.
OfficialNames(its, repo) ==
    LET pick(it) == it.source.kind = "Official" /\ it.source.repo = repo
        sel == SelectSeq(its, pick)
    IN  [i \in 1..Len(sel) |-> sel[i].name]

RepoGroups(its) ==
    {[repo |-> r, names |-> OfficialNames(its, r)] :
        r \in {its[i].source.repo : i \in {j \in 1..Len(its) : its[j].source.kind = "Official"}}}

\* Whether ensure_file_db_synced runs `pacman -Fy`: not when the database is
\* known to be fresh.
SyncAttempted(age, max_age_days) ==
    IsFileDbStale(age, max_age_days) # <<FALSE>>

\* Mutant: a failed refresh ends the resolution.
AfterSync_AbortOnFailure(status) ==
    IF status = "failed" THEN "done" ELSE "batch"

\* The `match ensure_file_db_synced(..)` of resolve_file_changes: every arm
\* only logs, the resolution goes on.
AfterSync(status) ==
    "batch"

\* ensure_file_db_synced(false, 30) and the `match` around it, then the guard
\* of the batch fetch: `!official_packages.is_empty() && Install`.
EnsureFileDbSynced(age, out) ==
    /\ fpc = "sync"
    /\ flog' = Append(flog,
                      IF SyncAttempted(age, MAX_AUTO_SYNC_AGE_DAYS)
                      THEN [cmd |-> "pacman -Fy", status |-> Outcome(out), age |-> age]
                      ELSE [cmd |-> "pacman -Fy", status |-> "skipped", age |-> age])
    /\ groups_left' = IF action = "Install" THEN RepoGroups(items) ELSE {}
    /\ cur_group' = Null
    /\ fpc' = AfterSync(flog'[Len(flog')].status)
    /\ UNCHANGED <<caller, items, action, idx, results, cache, failed>>
    /\ UNCHANGED itemLocals
    /\ UNCHANGED nonFileVars

\* `names.chunks(BATCH_SIZE)`: the next chunk of a group and what is left.
ChunkOf(g) == SubSeq(g.names, 1, IF Len(g.names) < BATCH_SIZE THEN Len(g.names) ELSE BATCH_SIZE)
AfterChunk(g) == SubSeq(g.names, Len(ChunkOf(g)) + 1, Len(g.names))

\* `result_map.extend(pkg_files)`
Extend(m, pf) ==
    [n \in DOMAIN m \cup DOMAIN pf |-> IF n \in DOMAIN pf THEN pf[n] ELSE m[n]]

\* Mutant: a failed chunk ends the batch fetch for every group.
RemainingGroups_AbortAll(left, g, out) ==
    IF out.status = "ok" THEN left \ {g} ELSE {}

\* `for (repo, names) in repo_groups`: the groups still to go through once g
\* has been entered; the `break` of a failed chunk leaves g only.
RemainingGroups(left, g, out) ==
    left \ {g}

\* batch_get_remote_file_lists: one `pacman -Fl <specs>` for the next chunk of
\* a repo group; `_ => break` leaves the group.
BatchQueryChunk(g, out) ==
    /\ fpc = "batch"
    /\ \/ cur_group # Null /\ g = cur_group
       \/ cur_group = Null /\ g \in groups_left
    /\ groups_left' = RemainingGroups(groups_left, g, out)
    /\ flog' = Append(flog, [cmd |-> "pacman -Fl (batch)", status |-> Outcome(out),
                             repo |-> g.repo])
    /\ IF out.status = "ok"
       THEN /\ cache' = Extend(cache, out.pkg_files)
            /\ cur_group' = IF AfterChunk(g) = <<>>
                            THEN Null
                            ELSE [repo |-> g.repo, names |-> AfterChunk(g)]
       ELSE /\ cache' = cache
            /\ cur_group' = Null
    /\ UNCHANGED <<fpc, caller, items, action, idx, results, failed>>
    /\ UNCHANGED itemLocals
    /\ UNCHANGED nonFileVars

\* Every repo group has been gone through: `result_map` is returned.
BatchDone ==
    /\ fpc = "batch"
    /\ cur_group = Null
    /\ groups_left = {}
    /\ fpc' = "loop"
    /\ UNCHANGED loopVars
    /\ UNCHANGED itemLocals
    /\ UNCHANGED nonFileVars

\* `let use_batched = Install && Official && cache.contains_key(name)`
UseBatched(it, act, c) ==
    act = "Install" /\ it.source.kind = "Official" /\ it.name \in DOMAIN c

\* The head of the loop body for items[idx].
LoopBeginItem ==
    /\ fpc = "loop"
    /\ idx <= Len(items)
    /\ item' = items[idx]
    /\ IF UseBatched(items[idx], action, cache)
       THEN /\ remote_files' = cache[items[idx].name]
            /\ fpc' = "ql"
       ELSE /\ remote_files' = <<>>
            /\ fpc' = FirstStep(items[idx], action)
    /\ installed_files' = <<>>
    /\ backup_files' = <<>>
    /\ fl_has_paru' = FALSE
    /\ fl_has_yay' = FALSE
    /\ item_ret' = Null
    /\ rm_ql_status' = "none"
    /\ pkgbuild_miss' = "none"
    /\ srcinfo_backup' = "none"
    /\ UNCHANGED loopVars
    /\ UNCHANGED nonFileVars

\* The loop is over: `results` is returned.
LoopDone ==
    /\ fpc = "loop"
    /\ idx > Len(items)
    /\ fpc' = "done"
    /\ UNCHANGED loopVars
    /\ UNCHANGED itemLocals
    /\ UNCHANGED nonFileVars

\* resolve_package_files(name, source, action), called on its own.
ResolvePackageFiles(it, act) ==
    /\ fpc = "idle"
    /\ caller' = "direct"
    /\ action' = act
    /\ EnterItem(it)
    /\ fpc' = FirstStep(it, act)
    /\ UNCHANGED <<items, idx, results, cache, groups_left, cur_group, flog, failed>>
    /\ UNCHANGED nonFileVars

\* resolve_install_files_with_remote_list(name, source, remote_files), called
\* on its own.
ResolveInstallFilesWithRemoteList(it, rf) ==
    /\ fpc = "idle"
    /\ caller' = "direct"
    /\ action' = "Install"
    /\ item' = it
    /\ remote_files' = rf
    /\ installed_files' = <<>>
    /\ backup_files' = <<>>
    /\ fl_has_paru' = FALSE
    /\ fl_has_yay' = FALSE
    /\ item_ret' = Null
    /\ rm_ql_status' = "none"
    /\ pkgbuild_miss' = "none"
    /\ srcinfo_backup' = "none"
    /\ fpc' = "ql"
    /\ UNCHANGED <<items, idx, results, cache, groups_left, cur_group, flog, failed>>
    /\ UNCHANGED nonFileVars

\* get_remote_file_list, Source::Official: `pacman -Fl <spec>`.
RemoteListResult(out, n) ==
    CASE out.status = "spawn_err" -> Err(<<"pacman -Fl failed", n>>)
      [] out.status = "exit_fail" /\ out.why = "db_missing" -> Ok(<<>>)
      [] out.status = "exit_fail" -> Err(<<"pacman -Fl failed for", n>>)
      [] OTHER -> Ok(out.files)

GetRemoteFileListOfficial(out) ==
    /\ fpc = "fl"
    /\ LET r == RemoteListResult(out, item.name)
       IN  IF r.ok
           THEN /\ remote_files' = r.value
                /\ item_ret' = item_ret
                /\ fpc' = "ql"
           ELSE /\ remote_files' = remote_files
                /\ item_ret' = r
                /\ fpc' = "item_done"
    /\ UNCHANGED <<srcinfo_backup, pkgbuild_miss, rm_ql_status, item, installed_files,
                   backup_files, fl_has_paru, fl_has_yay>>
    /\ UNCHANGED loopVars
    /\ UNCHANGED nonFileVars

\* Mutant: stderr is not inspected, every non-zero exit is an error.
InstalledListResult_NotFoundIsError(out, n) ==
    CASE out.status = "spawn_err" -> Err(<<"pacman -Ql failed", n>>)
      [] out.status = "exit_fail" -> Err(<<"pacman -Ql failed for", n>>)
      [] OTHER -> Ok(out.files)

\* get_installed_file_list: `pacman -Ql <name>`; "was not found" is Ok(empty).
InstalledListResult(out, n) ==
    CASE out.status = "spawn_err" -> Err(<<"pacman -Ql failed", n>>)
      [] out.status = "exit_fail" /\ out.why = "not_found" -> Ok(<<>>)
      [] out.status = "exit_fail" -> Err(<<"pacman -Ql failed for", n>>)
      [] OTHER -> Ok(out.files)

\* `.unwrap_or_default()`
UnwrapOrDefault(r) == IF r.ok THEN r.value ELSE <<>>

\* get_remote_file_list, Source::Aur: "First, check if package is already
\* installed".
AurInstalledFirst(out) ==
    /\ fpc = "aur_ql"
    /\ LET r == InstalledListResult(out, item.name)
       IN  IF r.ok /\ r.value # <<>>
           THEN /\ remote_files' = r.value
                /\ fpc' = "ql"
           ELSE /\ remote_files' = remote_files
                /\ fpc' = "aur_probe"
    /\ UNCHANGED <<srcinfo_backup, pkgbuild_miss, rm_ql_status, item, installed_files,
                   backup_files, fl_has_paru, fl_has_yay, item_ret>>
    /\ UNCHANGED loopVars
    /\ UNCHANGED nonFileVars

\* `paru --version`, `yay --version`.
AurProbeHelpers(paru, yay) ==
    /\ fpc = "aur_probe"
    /\ fl_has_paru' = paru
    /\ fl_has_yay' = yay
    /\ fpc' = IF paru THEN "aur_paru_fl" ELSE IF yay THEN "aur_yay_fl" ELSE "aur_pkgbuild"
    /\ UNCHANGED <<srcinfo_backup, pkgbuild_miss, rm_ql_status, item, remote_files,
                   installed_files, backup_files, item_ret>>
    /\ UNCHANGED loopVars
    /\ UNCHANGED nonFileVars

\* A helper's -Fl listing is returned when it succeeded and is not empty.
HelperListUsable(out) == out.status = "ok" /\ out.files # <<>>

\* `if has_paru { paru -Fl <name> ... if !files.is_empty() { return Ok(files) } }`
AurParuFl(out) ==
    /\ fpc = "aur_paru_fl"
    /\ IF HelperListUsable(out)
       THEN /\ remote_files' = out.files
            /\ fpc' = "ql"
       ELSE /\ remote_files' = remote_files
            /\ fpc' = IF fl_has_yay THEN "aur_yay_fl" ELSE "aur_pkgbuild"
    /\ UNCHANGED <<srcinfo_backup, pkgbuild_miss, rm_ql_status, item, installed_files,
                   backup_files, fl_has_paru, fl_has_yay, item_ret>>
    /\ UNCHANGED loopVars
    /\ UNCHANGED nonFileVars

\* `if has_yay { yay -Fl <name> ... }`
AurYayFl(out) ==
    /\ fpc = "aur_yay_fl"
    /\ IF HelperListUsable(out)
       THEN /\ remote_files' = out.files
            /\ fpc' = "ql"
       ELSE /\ remote_files' = remote_files
            /\ fpc' = "aur_pkgbuild"
    /\ UNCHANGED <<srcinfo_backup, pkgbuild_miss, rm_ql_status, item, installed_files,
                   backup_files, fl_has_paru, fl_has_yay, item_ret>>
    /\ UNCHANGED loopVars
    /\ UNCHANGED nonFileVars

\* "Fallback: try to parse PKGBUILD to extract install paths", and the final
\* `Ok(Vec::new())`.
AurPkgbuildResult(out, n) ==
    IF out.status = "ok"
    THEN InstallPathsFromPkgbuild(out.extracted, n)
    ELSE <<>>

AurPkgbuildPaths(out) ==
    /\ fpc = "aur_pkgbuild"
    /\ remote_files' = AurPkgbuildResult(out, item.name)
    /\ pkgbuild_miss' = IF out.status # "ok" THEN "fetch_err"
                        ELSE IF out.extracted = <<>> THEN "no_paths" ELSE "none"
    /\ fpc' = "ql"
    /\ UNCHANGED <<srcinfo_backup, rm_ql_status, item, installed_files, backup_files,
                   fl_has_paru,
                   fl_has_yay, item_ret>>
    /\ UNCHANGED loopVars
    /\ UNCHANGED nonFileVars

\* resolve_install_files_with_remote_list:
\* `get_installed_file_list(name).unwrap_or_default()`.
InstalledForInstall(out) ==
    /\ fpc = "ql"
    /\ installed_files' = UnwrapOrDefault(InstalledListResult(out, item.name))
    /\ fpc' = "qii"
    /\ UNCHANGED <<srcinfo_backup, pkgbuild_miss, rm_ql_status, item, remote_files,
                   backup_files, fl_has_paru, fl_has_yay, item_ret>>
    /\ UNCHANGED loopVars
    /\ UNCHANGED nonFileVars

\* resolve_remove_files: `get_installed_file_list(name)?`.
InstalledForRemove(out) ==
    /\ fpc = "rm_ql"
    /\ rm_ql_status' = IF out.status = "exit_fail" THEN out.why ELSE out.status
    /\ LET r == InstalledListResult(out, item.name)
       IN  IF r.ok
           THEN /\ installed_files' = r.value
                /\ item_ret' = item_ret
                /\ fpc' = "qii"
           ELSE /\ installed_files' = installed_files
                /\ item_ret' = r
                /\ fpc' = "item_done"
    /\ UNCHANGED <<srcinfo_backup, pkgbuild_miss, item, remote_files, backup_files,
                   fl_has_paru,
                   fl_has_yay>>
    /\ UNCHANGED loopVars
    /\ UNCHANGED nonFileVars

\* The `source` get_backup_files is called with: the item's for Install,
\* `Source::Official { repo: "", arch: "" }` for Remove.
BackupSource == IF action = "Remove" THEN Official("") ELSE item.source

\* A backup list is taken from a source when the source answered and the
\* list is not empty.
BackupUsable(out) == out.status = "ok" /\ out.backup # <<>>

\* get_backup_files, first try: get_backup_files_from_installed (pacman -Qii).
BackupFromInstalled(out) ==
    /\ fpc = "qii"
    /\ IF BackupUsable(out)
       THEN /\ backup_files' = out.backup
            /\ fpc' = "classify"
       ELSE /\ backup_files' = backup_files
            /\ fpc' = IF BackupSource.kind = "Aur" THEN "bk_srcinfo" ELSE "bk_pkgbuild"
    /\ UNCHANGED <<srcinfo_backup, pkgbuild_miss, rm_ql_status, item, remote_files,
                   installed_files, fl_has_paru, fl_has_yay, item_ret>>
    /\ UNCHANGED loopVars
    /\ UNCHANGED nonFileVars

\* get_backup_files, Source::Aur: fetch_srcinfo_sync + parse_backup_from_srcinfo.
BackupFromSrcinfo(out) ==
    /\ fpc = "bk_srcinfo"
    /\ srcinfo_backup' = IF out.status # "ok" THEN "fetch_err"
                         ELSE IF out.backup = <<>> THEN "empty" ELSE "none"
    /\ IF BackupUsable(out)
       THEN /\ backup_files' = out.backup
            /\ fpc' = "classify"
       ELSE /\ backup_files' = backup_files
            /\ fpc' = "bk_pkgbuild"
    /\ UNCHANGED <<pkgbuild_miss, rm_ql_status, item, remote_files, installed_files,
                   fl_has_paru, fl_has_yay, item_ret>>
    /\ UNCHANGED loopVars
    /\ UNCHANGED nonFileVars

\* get_backup_files: fetch_pkgbuild_sync + parse_backup_from_pkgbuild, then
\* `Ok(Vec::new())`.
BackupFromPkgbuild(out) ==
    /\ fpc = "bk_pkgbuild"
    /\ srcinfo_backup' = "none"
    /\ backup_files' = IF BackupUsable(out) THEN out.backup ELSE <<>>
    /\ fpc' = "classify"
    /\ UNCHANGED <<pkgbuild_miss, rm_ql_status, item, remote_files,
                   installed_files, fl_has_paru, fl_has_yay, item_ret>>
    /\ UNCHANGED loopVars
    /\ UNCHANGED nonFileVars

\* The loop, the sort and the `Ok(PackageFileInfo { .. })` of
\* resolve_install_files_with_remote_list / resolve_remove_files.
Classify ==
    /\ fpc = "classify"
    /\ item_ret' = Ok(IF action = "Install"
                      THEN InstallFileInfo(item.name, remote_files, installed_files,
                                           backup_files)
                      ELSE RemoveFileInfo(item.name, installed_files, backup_files))
    /\ fpc' = "item_done"
    /\ UNCHANGED <<srcinfo_backup, pkgbuild_miss, rm_ql_status, item, remote_files,
                   installed_files, backup_files, fl_has_paru,
                   fl_has_yay>>
    /\ UNCHANGED loopVars
    /\ UNCHANGED nonFileVars

\* The `match` of the loop body: `Ok(file_info) => results.push(file_info)`,
\* `Err(e) => results.push(<empty entry>)`.
ResultEntry_NamelessOnError(r, n) ==
    IF r.ok THEN r.value ELSE EmptyFileInfo(<<>>)

ResultEntry(r, n) ==
    IF r.ok THEN r.value ELSE EmptyFileInfo(n)

PushResult ==
    /\ fpc = "item_done"
    /\ caller = "loop"
    /\ results' = Append(results, ResultEntry(item_ret, item.name))
    /\ failed' = IF item_ret.ok THEN failed ELSE failed \cup {idx}
    /\ idx' = idx + 1
    /\ EnterItem(Null)
    /\ fpc' = "loop"
    /\ UNCHANGED <<caller, items, action, cache, groups_left, cur_group, flog>>
    /\ UNCHANGED nonFileVars

\* A per-package resolver called on its own returns `item_ret`.
PackageReturn ==
    /\ fpc = "item_done"
    /\ caller = "direct"
    /\ fpc' = "idle"
    /\ UNCHANGED loopVars
    /\ UNCHANGED itemLocals
    /\ UNCHANGED nonFileVars

\* resolve_file_changes returns `results`.
FilesReturn ==
    /\ fpc = "done"
    /\ fpc' = "idle"
    /\ UNCHANGED loopVars
    /\ UNCHANGED itemLocals
    /\ UNCHANGED nonFileVars

\* The steps of the per-package resolvers, with file lists of at most L paths.
PackageSteps(L) ==
    \/ \E out \in RemoteListOutcomes(L) : GetRemoteFileListOfficial(out)
    \/ \E out \in InstalledListOutcomes(L) : AurInstalledFirst(out)
    \/ \E paru \in BOOLEAN, yay \in BOOLEAN : AurProbeHelpers(paru, yay)
    \/ \E out \in HelperListOutcomes(L) : AurParuFl(out)
    \/ \E out \in HelperListOutcomes(L) : AurYayFl(out)
    \/ \E out \in PkgbuildPathOutcomes(L) : AurPkgbuildPaths(out)
    \/ \E out \in InstalledListOutcomes(L) : InstalledForInstall(out)
    \/ \E out \in InstalledListOutcomes(L) : InstalledForRemove(out)
    \/ \E out \in QiiOutcomes : BackupFromInstalled(out)
    \/ \E out \in BackupFetchOutcomes : BackupFromSrcinfo(out)
    \/ \E out \in BackupFetchOutcomes : BackupFromPkgbuild(out)
    \/ Classify

(***************************************************************************)
(* batch_fetch_official_deps, and an isolated resolve_package_deps query   *)
(* over the same metadata.                                                 *)
(***************************************************************************)
DEPS_BATCH_SIZE == 50

\* The dependency tokens the metadata of a package may list.
MetaTokens == {Pkg, Other, LibSo}

Metadata == [PkgNames -> SeqsUpTo(MetaTokens, MaxDeps)]

OfficialExtra == [kind |-> "Official", repo |-> "extra"]

BatchInit ==
    /\ bpc = "idle"
    /\ b_names = <<>>
    /\ result_map = EmptyCache
    /\ metadata = [n \in PkgNames |-> <<>>]
    /\ b_input = <<>>
    /\ b_log = <<>>

\* batch_fetch_official_deps(names), entry; `md` is what the sync database
\* holds when it is called.
BatchFetchOfficialDeps(names, md) ==
    /\ bpc = "idle"
    /\ pc = "idle"
    /\ metadata' = md
    /\ b_names' = names
    /\ b_input' = names
    /\ b_log' = <<>>
    /\ result_map' = EmptyCache
    /\ bpc' = IF names = <<>> THEN "done" ELSE "chunk"
    /\ UNCHANGED nonBatchVars

\* Mutant: the names are not chunked, one query carries them all.
DepsChunkOf_Unchunked(names) ==
    names

\* `names.chunks(BATCH_SIZE)`
DepsChunkOf(names) ==
    SubSeq(names, 1, IF Len(names) < DEPS_BATCH_SIZE THEN Len(names) ELSE DEPS_BATCH_SIZE)

\* A `pacman -Si <chunk>`: it cannot be run, exits non-zero, or prints blocks,
\* of which those of `named` have a "Name" line.
BatchSiOutcomes(chunk) ==
    {SpawnErr, Failed("other")}
    \cup {[status |-> "ok", why |-> "-", named |-> S] : S \in SUBSET Range(chunk)}

\* Mutant: the dependencies are parsed from the whole output, not from the
\* block of the package.
RECURSIVE SiBlockDeps_WholeText(_, _, _)
SiBlockDeps_WholeText(md, chunk, n) ==
    IF chunk = <<>> THEN <<>>
    ELSE md[Head(chunk)] \o SiBlockDeps_WholeText(md, Tail(chunk), n)

\* `parse_pacman_si_deps(&block)` for the block whose "Name" is n.
SiBlockDeps(md, chunk, n) ==
    md[n]

\* One `pacman -Si <chunk>`: `result_map.insert(pkg_name, dep_names)` per
\* block, `_ => break` on failure.
BatchSiChunk(out) ==
    /\ bpc = "chunk"
    /\ LET chunk == DepsChunkOf(b_names)
           rest == SubSeq(b_names, Len(chunk) + 1, Len(b_names))
       IN  IF out.status = "ok"
           THEN /\ result_map' =
                      [n \in DOMAIN result_map \cup out.named |->
                          IF n \in out.named
                          THEN SiBlockDeps(metadata, chunk, n)
                          ELSE result_map[n]]
                /\ b_names' = rest
                /\ bpc' = IF rest = <<>> THEN "done" ELSE "chunk"
           ELSE /\ result_map' = result_map
                /\ b_names' = b_names
                /\ bpc' = "done"
    /\ b_log' = Append(b_log, [chunk |-> DepsChunkOf(b_names), status |-> out.status,
                               named |-> IF out.status = "ok" THEN out.named ELSE {}])
    /\ UNCHANGED <<metadata, b_input>>
    /\ UNCHANGED nonBatchVars

\* The outcomes of `pacman -Si <name>` over the metadata the batch read.
SameMetadataOutcomes ==
    IF name \in DOMAIN metadata
    THEN {o \in DepQueryOutcomes : o.status = "spawn_err" \/ o.dep_names = metadata[name]}
    ELSE {}

\* resolve_package_deps(n, Official) called on its own once the batch is done.
IsolatedQuery(n) ==
    /\ bpc = "done"
    /\ ResolvePackageDeps(n, OfficialExtra)

IsolatedSi(out) ==
    /\ bpc = "done"
    /\ DepsRemoteSi(out)

IsolatedReturn ==
    /\ bpc = "done"
    /\ Return

(***************************************************************************)
(* The preflight orchestrator: one session at a time, keyed by the         *)
(* signature (action, sorted package-name set) of the request it serves,   *)
(* with one state per stage.  AppState declares the request slots, the     *)
(* `*_resolving` flags and `preflight_cancelled`.                          *)
(***************************************************************************)
Stages == {"Summary", "Dependencies", "Files", "Services", "Sandbox"}

StageStates == {"Idle", "Resolving", "Resolved", "Cancelled"}

\* The package-name lists a request may carry.
RequestNames == {<<Pkg>>, <<Pkg, Dep1>>, <<Dep1, Pkg>>}

\* The signature of a request: its action and its names, sorted, as a set.
Signature(act, names) == <<act, SortDedup(names)>>

PreflightInit ==
    /\ preflight_cancelled = FALSE
    /\ stage = [s \in Stages |-> "Idle"]
    /\ session = <<>>
    /\ valid = FALSE
    /\ instance = 0
    /\ requests = 0
    /\ last_sig = <<>>

SomeResolving == \E s \in Stages : stage[s] = "Resolving"

AllResolved == \A s \in Stages : stage[s] = "Resolved"

\* Mutant: a request is a duplicate only while its signature is Resolving.
IsDuplicate_OnlyWhileResolving(sig) ==
    /\ session = <<sig>>
    /\ SomeResolving

\* "an identical (action, sorted-name-set) signature is already Resolving or
\* already Resolved with no intervening invalidation".
IsDuplicate(sig) ==
    /\ session = <<sig>>
    /\ SomeResolving \/ (AllResolved /\ valid)

\* A new request: dropped when it is a duplicate; otherwise a fresh session
\* is opened for its signature and each stage transitions to Resolving.
PreflightRequest(act, names) ==
    /\ requests < MaxRequests
    /\ requests' = requests + 1
    /\ last_sig' = <<Signature(act, names)>>
    /\ IF IsDuplicate(Signature(act, names))
       THEN UNCHANGED <<preflight_cancelled, stage, session, valid, instance>>
       ELSE /\ session' = <<Signature(act, names)>>
            /\ stage' = [s \in Stages |-> "Resolving"]
            /\ valid' = TRUE
            /\ instance' = instance + 1
            /\ preflight_cancelled' = FALSE
    /\ UNCHANGED nonPreflightVars

\* A stage completes: Resolving -> Resolved.
StageResolved(s) ==
    /\ stage[s] = "Resolving"
    /\ stage' = [stage EXCEPT ![s] = "Resolved"]
    /\ UNCHANGED <<preflight_cancelled, session, valid, instance, requests, last_sig>>
    /\ UNCHANGED nonPreflightVars

\* Mutant: every stage that is not finished can be cancelled.
Cancellable_AnyState(st) ==
    st # "Cancelled"

\* Cancelled is "reachable from Resolving only".
Cancellable(st) ==
    st = "Resolving"

\* A stage observes the raised flag and stops: Resolving -> Cancelled.
StageCancelled(s) ==
    /\ preflight_cancelled
    /\ Cancellable(stage[s])
    /\ stage' = [stage EXCEPT ![s] = "Cancelled"]
    /\ UNCHANGED <<preflight_cancelled, session, valid, instance, requests, last_sig>>
    /\ UNCHANGED nonPreflightVars

\* The session closes: the shared flag is raised.
ClosePreflight ==
    /\ ~preflight_cancelled
    /\ preflight_cancelled' = TRUE
    /\ UNCHANGED <<stage, session, valid, instance, requests, last_sig>>
    /\ UNCHANGED nonPreflightVars

\* The resolved results of the session are invalidated.
Invalidate ==
    /\ session # <<>>
    /\ valid
    /\ valid' = FALSE
    /\ UNCHANGED <<preflight_cancelled, stage, session, instance, requests, last_sig>>
    /\ UNCHANGED nonPreflightVars

(***************************************************************************)
(* choose_terminal_index_prefer_path (src/install/utils.rs).  A directory  *)
(* maps a binary name to what `dir.join(name)` is: absent, an executable   *)
(* file, a file without execute bits, or not a regular file.               *)
(***************************************************************************)
TermNames == {"kitty", "xterm"}

EntryKinds == {"absent", "exec", "noexec", "notfile"}

Directories == [TermNames -> EntryKinds]

\* `candidate.is_file() && metadata(..).permissions().mode() & 0o111 != 0`
IsExecFile(dir, n) == dir[n] = "exec"

\* The inner loop `for (i, (name, ..)) in terms.iter().enumerate()` over one
\* directory: <<i>> for the first name that is an executable file there.
RECURSIVE FirstInDir(_, _, _)
FirstInDir(dir, terms, i) ==
    IF i >= Len(terms) THEN <<>>
    ELSE IF IsExecFile(dir, terms[i + 1]) THEN <<i>>
    ELSE FirstInDir(dir, terms, i + 1)

\* The outer loop `for dir in std::env::split_paths(&paths)`.
RECURSIVE ScanDirs(_, _)
ScanDirs(dirs, terms) ==
    IF dirs = <<>> THEN <<>>
    ELSE IF FirstInDir(Head(dirs), terms, 0) # <<>>
         THEN FirstInDir(Head(dirs), terms, 0)
         ELSE ScanDirs(Tail(dirs), terms)

\* Mutant: the terms are the outer loop, the directories the inner one.
RECURSIVE ChooseTerminalIndex_TermsFirst(_, _)
ChooseTerminalIndex_TermsFirst(terms, path) ==
    IF path = <<>> THEN <<>>
    ELSE LET hits == {i \in 0..(Len(terms) - 1) :
                        \E d \in 1..Len(path[1]) : IsExecFile(path[1][d], terms[i + 1])}
         IN  IF hits = {} THEN <<>>
             ELSE <<CHOOSE i \in hits : \A j \in hits : i <= j>>

\* `if let Some(paths) = std::env::var_os("PATH") { .. } None`
ChooseTerminalIndex(terms, path) ==
    IF path = <<>> THEN <<>> ELSE ScanDirs(path[1], terms)

TerminalInit ==
    /\ tpc = "idle"
    /\ t_terms = <<>>
    /\ t_path = <<>>
    /\ t_ret = <<>>

\* choose_terminal_index_prefer_path(terms) under the environment `path`.
ChooseTerminal(terms, path) ==
    /\ tpc = "idle"
    /\ t_terms' = terms
    /\ t_path' = path
    /\ t_ret' = ChooseTerminalIndex(terms, path)
    /\ tpc' = "done"
    /\ UNCHANGED nonTerminalVars

\* The call returns: its arguments and its result go out of scope.
TerminalReturn ==
    /\ tpc = "done"
    /\ tpc' = "idle"
    /\ t_terms' = <<>>
    /\ t_path' = <<>>
    /\ t_ret' = <<>>
    /\ UNCHANGED nonTerminalVars

(***************************************************************************)
(* The official index (src/index): update_in_background replaces the       *)
(* package list, request_enrich_for fills in fields from `pacman -Si`.     *)
(* Both run as spawned tasks; a step is one section under the RwLock.      *)
(***************************************************************************)
IndexNames == {Pkg, Dep1}

\* An OfficialPkg without its name.
OfficialPkg(repo, arch, version, description) ==
    [repo |-> repo, arch |-> arch, version |-> version, description |-> description]

\* fetch_official_pkg_names keeps repo and version, leaves arch and
\* description empty.
FetchedPkgs == {OfficialPkg("core", "", "1", ""), OfficialPkg("extra", "", "", "")}

FetchResults ==
    {[status |-> "err", pkgs |-> <<>>]} \cup
    {[status |-> "ok", pkgs |-> f] :
        f \in UNION {[S -> FetchedPkgs] : S \in SUBSET IndexNames}}

\* The <<desc, arch, repo, version>> blocks `pacman -Si` can print.
SiBlocks == {<<"Desc", "x86_64", "core", "2">>, <<"", "any", "", "">>, <<"", "", "", "">>}

DescMaps == UNION {[S -> SiBlocks] : S \in SUBSET IndexNames}

\* "prefer old/enriched fields when same name exists"
MergePkg(old_map, n, p) ==
    IF n \in DOMAIN old_map
    THEN OfficialPkg(old_map[n].repo, old_map[n].arch, old_map[n].version,
                     old_map[n].description)
    ELSE p

\* The field updates of request_enrich_for for one index entry.
EnrichPkg(p, b) ==
    OfficialPkg(IF b[3] # "" THEN b[3] ELSE p.repo,
                IF b[2] # "" THEN b[2] ELSE p.arch,
                IF b[4] # "" THEN b[4] ELSE p.version,
                IF p.description = "" THEN b[1] ELSE p.description)

IndexInit ==
    /\ official_index = <<>>
    /\ upc = "idle"
    /\ u_new = <<>>
    /\ u_merged = <<>>
    /\ u_different = FALSE
    /\ epc = "idle"
    /\ e_desc_map = <<>>

\* update_in_background: `fetch_official_pkg_names().await`.
UpdateFetch(res) ==
    /\ upc = "idle"
    /\ IF res.status = "ok"
       THEN upc' = "merge" /\ u_new' = res.pkgs
       ELSE upc' = "idle" /\ u_new' = <<>>
    /\ UNCHANGED <<official_index, u_merged, u_different, epc, e_desc_map>>
    /\ UNCHANGED nonIndexVars

\* update_in_background: the block under `idx().read()`.
UpdateMerge ==
    /\ upc = "merge"
    /\ u_different' = (DOMAIN official_index # DOMAIN u_new)
    /\ u_merged' = [n \in DOMAIN u_new |-> MergePkg(official_index, n, u_new[n])]
    /\ upc' = "replace"
    /\ UNCHANGED <<official_index, u_new, epc, e_desc_map>>
    /\ UNCHANGED nonIndexVars

\* update_in_background: `if different { idx().write() .. g.pkgs = merged }`.
UpdateReplace ==
    /\ upc = "replace"
    /\ official_index' = IF u_different THEN u_merged ELSE official_index
    /\ upc' = "idle"
    /\ u_new' = <<>>
    /\ u_merged' = <<>>
    /\ u_different' = FALSE
    /\ UNCHANGED <<epc, e_desc_map>>
    /\ UNCHANGED nonIndexVars

\* request_enrich_for: the `pacman -Si` batches, up to `desc_map.is_empty()`.
EnrichRequest(desc_map) ==
    /\ epc = "idle"
    /\ IF desc_map = <<>>
       THEN epc' = "idle" /\ e_desc_map' = <<>>
       ELSE epc' = "apply" /\ e_desc_map' = desc_map
    /\ UNCHANGED <<official_index, upc, u_new, u_merged, u_different>>
    /\ UNCHANGED nonIndexVars

\* request_enrich_for: the block under `idx().write()`.
EnrichApply ==
    /\ epc = "apply"
    /\ official_index' =
           [n \in DOMAIN official_index |->
               IF n \in DOMAIN e_desc_map
               THEN EnrichPkg(official_index[n], e_desc_map[n])
               ELSE official_index[n]]
    /\ epc' = "idle"
    /\ e_desc_map' = <<>>
    /\ UNCHANGED <<upc, u_new, u_merged, u_different>>
    /\ UNCHANGED nonIndexVars

vars == <<depVars, fileVars, batchVars, preflightVars, terminalVars, indexVars>>

Init == DepsInit /\ FilesInit /\ BatchInit /\ PreflightInit /\ TerminalInit /\ IndexInit

NextDeps ==
    \/ \E n \in PkgNames, s \in Sources : ResolvePackageDeps(n, s)
    \/ \E out \in DepQueryOutcomes : DepsLocalQi(out)
    \/ \E out \in DepQueryOutcomes : DepsRemoteSi(out)
    \/ \E paru \in BOOLEAN, yay \in BOOLEAN : DepsProbeHelpers(paru, yay)
    \/ \E out \in DepQueryOutcomes : DepsParuSi(out)
    \/ \E out \in DepQueryOutcomes : DepsYaySi(out)
    \/ \E out \in SrcinfoDepOutcomes : DepsSrcinfo(out)
    \/ \E n \in PkgNames, s \in Sources : FetchPackageConflicts(n, s)
    \/ \E out \in ConflictQueryOutcomes : ConfLocalQi(out)
    \/ \E out \in ConflictQueryOutcomes : ConfRemoteSi(out)
    \/ \E paru \in BOOLEAN, yay \in BOOLEAN : ConfProbeHelpers(paru, yay)
    \/ \E out \in ConflictQueryOutcomes : ConfParuSi(out)
    \/ \E out \in ConflictQueryOutcomes : ConfYaySi(out)
    \/ \E out \in SrcinfoConflictOutcomes : ConfSrcinfo(out)
    \/ Return

SpecDeps == Init /\ [][NextDeps]_vars

\* A per-package resolver called on its own.
NextPackageFiles ==
    \/ \E it \in PackageItems, act \in Actions : ResolvePackageFiles(it, act)
    \/ \E it \in PackageItems, rf \in FileLists(MaxFiles) :
            ResolveInstallFilesWithRemoteList(it, rf)
    \/ PackageSteps(MaxFiles)
    \/ PackageReturn

SpecPackageFiles == Init /\ [][NextPackageFiles]_vars

\* resolve_file_changes over a list of packages.
NextFileChanges ==
    \/ \E its \in SeqsUpTo(ListedItems, MaxItems), act \in Actions :
            ResolveFileChanges(its, act)
    \/ \E age \in DbAges, out \in SyncOutcomes : EnsureFileDbSynced(age, out)
    \/ \E g \in groups_left \cup ({cur_group} \ {Null}) :
            \E out \in BatchOutcomes(ChunkOf(g), MaxItemFiles) : BatchQueryChunk(g, out)
    \/ BatchDone
    \/ LoopBeginItem
    \/ LoopDone
    \/ PackageSteps(MaxItemFiles)
    \/ PushResult
    \/ FilesReturn

SpecFileChanges == Init /\ [][NextFileChanges]_vars

\* batch_fetch_official_deps, then isolated queries over the same metadata.
NextBatchDeps ==
    \/ \E names \in SeqsUpTo(PkgNames, MaxBatchNames), md \in Metadata :
            BatchFetchOfficialDeps(names, md)
    \/ \E out \in BatchSiOutcomes(DepsChunkOf(b_names)) : BatchSiChunk(out)
    \/ \E n \in PkgNames : IsolatedQuery(n)
    \/ \E out \in SameMetadataOutcomes : IsolatedSi(out)
    \/ IsolatedReturn

SpecBatchDeps == Init /\ [][NextBatchDeps]_vars

\* The name lists of a call that needs up to MaxChunks chunks, and one more
\* name: Pkg, Dep1, Pkg, ...
ChunkLens ==
    {0, 1, DEPS_BATCH_SIZE - 1, DEPS_BATCH_SIZE, DEPS_BATCH_SIZE + 1,
     MaxChunks * DEPS_BATCH_SIZE, MaxChunks * DEPS_BATCH_SIZE + 1}

LongNameLists ==
    {[i \in 1..len |-> IF i % 2 = 1 THEN Pkg ELSE Dep1] : len \in ChunkLens}

\* batch_fetch_official_deps over name lists of several chunks.
NextBatchChunks ==
    \/ \E names \in LongNameLists, md \in Metadata : BatchFetchOfficialDeps(names, md)
    \/ \E out \in BatchSiOutcomes(DepsChunkOf(b_names)) : BatchSiChunk(out)

SpecBatchChunks == Init /\ [][NextBatchChunks]_vars

\* resolve_file_changes running while the preflight session may close.
NextFileCancel ==
    \/ NextFileChanges
    \/ ClosePreflight

SpecFileCancel == Init /\ [][NextFileCancel]_vars

\* The preflight orchestrator.
NextPreflight ==
    \/ \E act \in Actions, names \in RequestNames : PreflightRequest(act, names)
    \/ \E s \in Stages : StageResolved(s)
    \/ \E s \in Stages : StageCancelled(s)
    \/ ClosePreflight
    \/ Invalidate

SpecPreflight == Init /\ [][NextPreflight]_vars

\* The values of $PATH: unset, or up to MaxPathDirs directories.
PathValues == {<<>>} \cup {<<dirs>> : dirs \in SeqsUpTo(Directories, MaxPathDirs)}

NextTerminal ==
    \/ \E terms \in SeqsUpTo(TermNames, MaxTerms), path \in PathValues :
            ChooseTerminal(terms, path)
    \/ TerminalReturn

SpecTerminal == Init /\ [][NextTerminal]_vars

NextIndex ==
    \/ \E res \in FetchResults : UpdateFetch(res)
    \/ UpdateMerge
    \/ UpdateReplace
    \/ \E desc_map \in DescMaps : EnrichRequest(desc_map)
    \/ EnrichApply

SpecIndex == Init /\ [][NextIndex]_vars

(***************************************************************************)
(* Properties of the dependency and conflict resolvers.                    *)
(***************************************************************************)
DepsReturned == op = "deps" /\ pc = "done"
ConflictsReturned == op = "conflicts" /\ pc = "done"

LogHas(cmd, status) ==
    \E i \in 1..Len(log) : log[i].cmd = cmd /\ log[i].status = status

LogHasWhy(cmd, status, why) ==
    \E i \in 1..Len(log) :
        log[i].cmd = cmd /\ log[i].status = status /\ log[i].why = why

MetadataQueries ==
    {"pacman -Qi", "pacman -Si", "paru -Si", "yay -Si", "fetch .SRCINFO"}

\* C2: in every branch of resolve_package_deps (pacman -Si, pacman -Qi, helper
\* output, .SRCINFO merge), no dependency collected or returned has the name
\* of the package being resolved.
C2_NoSelfReference ==
    op = "deps" =>
        /\ \A i \in 1..Len(deps) : deps[i].name # name
        /\ (pc = "done" /\ ret.ok) =>
               \A i \in 1..Len(ret.value) : ret.value[i].name # name

\* A backend reported the package itself among its dependencies, the entry
\* was skipped, and a non-empty list was returned for an AUR package.
C2_Witness ==
    /\ DepsReturned /\ source.kind = "Aur" /\ ret.ok /\ ret.value # <<>>
    /\ LogHas("fetch .SRCINFO", "ok")
    /\ name \in dropped

LooksLikeSharedLib(n) ==
    \/ (Len(n) >= 3 /\ SubSeq(n, Len(n) - 2, Len(n)) = <<".", "s", "o">>)
    \/ \E i \in 1..(Len(n) - 3) :
          /\ SubSeq(n, i, i + 2) = <<".", "s", "o">>
          /\ n[i + 3] \in {".", "="}

\* C3: in every branch of resolve_package_deps no dependency collected or
\* returned has a name that ends in ".so" or contains ".so." or ".so=".
C3_NoSharedLibraryDeps ==
    op = "deps" =>
        /\ \A i \in 1..Len(deps) : ~LooksLikeSharedLib(deps[i].name)
        /\ (pc = "done" /\ ret.ok) =>
               \A i \in 1..Len(ret.value) : ~LooksLikeSharedLib(ret.value[i].name)

\* A backend reported "l.so.6", it was skipped, and a non-empty list was
\* returned.
C3_Witness ==
    /\ DepsReturned /\ ret.ok /\ ret.value # <<>>
    /\ LibSoV \in dropped
    /\ LibSo \in dropped

\* C4: for an AUR package resolve_package_deps returns Ok(list) whatever the
\* helper probes, the helper queries and the .SRCINFO fetch did.
C4_AurNeverErrors ==
    (DepsReturned /\ source.kind = "Aur") =>
        /\ ret.ok
        /\ ret.value = deps

\* Both helpers present, paru exits non-zero, yay cannot be started, the
\* .SRCINFO fetch fails: the result is the empty list.
C4_Witness ==
    /\ DepsReturned /\ source.kind = "Aur"
    /\ has_paru /\ has_yay
    /\ LogHas("paru -Si", "exit_fail")
    /\ LogHas("yay -Si", "spawn_err")
    /\ LogHas("fetch .SRCINFO", "fetch_err")
    /\ ret = Ok(<<>>)

\* C5: for an official package of a non-local repository, a pacman -Si that
\* exits non-zero makes resolve_package_deps return the error naming the
\* package, and no dependency was collected.
C5_RemoteQueryFailureIsError ==
    (DepsReturned /\ source.kind = "Official" /\ source.repo # "local"
        /\ LogHas("pacman -Si", "exit_fail")) =>
        /\ ret = Err(<<"pacman -Si failed for", name>>)
        /\ deps = <<>>

C5_Witness ==
    /\ DepsReturned /\ source = [kind |-> "Official", repo |-> "extra"]
    /\ log = <<[cmd |-> "pacman -Si", status |-> "exit_fail", why |-> "other"]>>
    /\ ~ret.ok

\* C6: for an official package marked local, a pacman -Qi that reports the
\* package as not found makes resolve_package_deps return Ok(empty list).
C6_LocalAbsentIsEmpty ==
    (DepsReturned /\ source.kind = "Official" /\ source.repo = "local"
        /\ LogHasWhy("pacman -Qi", "exit_fail", "not_found")) =>
        ret = Ok(<<>>)

C6_Witness ==
    /\ DepsReturned /\ source = [kind |-> "Official", repo |-> "local"]
    /\ log = <<[cmd |-> "pacman -Qi", status |-> "exit_fail", why |-> "not_found"]>>
    /\ ret = Ok(<<>>)

\* C7: for an official package marked local, a pacman -Qi that exits non-zero
\* for a reason other than "not found" yields an error, not an empty
\* dependency list.
C7_LocalQueryFailureIsError ==
    (DepsReturned /\ source.kind = "Official" /\ source.repo = "local"
        /\ LogHasWhy("pacman -Qi", "exit_fail", "other")) =>
        ~ret.ok

\* C8: fetch_package_conflicts always returns a list of names, and the list
\* is empty when no metadata query of the call succeeded.
C8_ConflictsNeverError ==
    ConflictsReturned =>
        /\ ret \in SeqsUpTo(ConflictPool, MaxConflicts)
        /\ (\A i \in 1..Len(log) :
                log[i].cmd \in MetadataQueries => log[i].status # "ok")
           => ret = <<>>

\* AUR, both helpers present, every source fails.
C8_Witness ==
    /\ ConflictsReturned /\ source.kind = "Aur"
    /\ has_paru /\ has_yay
    /\ LogHas("paru -Si", "exit_fail")
    /\ LogHas("yay -Si", "exit_fail")
    /\ LogHas("fetch .SRCINFO", "fetch_err")
    /\ ret = <<>>

(***************************************************************************)
(* File-change resolver                                                    *)
(***************************************************************************)
AllCountsZero(info) ==
    /\ info.files = <<>>
    /\ info.total_count = 0
    /\ info.new_count = 0
    /\ info.changed_count = 0
    /\ info.removed_count = 0
    /\ info.config_count = 0
    /\ info.pacnew_candidates = 0
    /\ info.pacsave_candidates = 0

\* C1: while resolve_file_changes runs and when it returns, the results hold
\* exactly one entry per item processed so far (all of them at the return),
\* entry i carries the name of item i, and the entry of an item whose
\* resolution failed has no files and only zero counts.
C1_OneEntryPerItemInOrder ==
    caller = "loop" =>
        /\ Len(results) = idx - 1
        /\ fpc \in {"done", "idle"} => Len(results) = Len(items)
        /\ \A i \in 1..Len(results) : results[i].name = items[i].name
        /\ \A i \in failed : i \in 1..Len(results) /\ AllCountsZero(results[i])

\* A two-item Install whose batch query failed, whose first item failed and
\* whose second item resolved to a non-empty file list has returned.
C1_Witness ==
    /\ caller = "loop"
    /\ fpc = "done"
    /\ action = "Install"
    /\ Len(items) = 2
    /\ \E k \in 1..Len(flog) :
          flog[k].cmd = "pacman -Fl (batch)" /\ flog[k].status = "failed"
    /\ failed = {1}
    /\ results[2].total_count > 0

FileInfoReturned == fpc = "item_done" /\ item_ret # Null /\ item_ret.ok

NumberOf(files, Test(_)) == Cardinality({i \in 1..Len(files) : Test(files[i])})

\* C9: in every PackageFileInfo a per-package resolver returns, each count
\* equals the number of file records with that change type or flag, and
\* total_count is new_count + changed_count for Install and removed_count
\* for Remove.
C9_CountsAgreeWithFiles ==
    FileInfoReturned =>
        LET info == item_ret.value
            IsNew(fc) == fc.change_type = "New"
            IsChanged(fc) == fc.change_type = "Changed"
            IsRemoved(fc) == fc.change_type = "Removed"
            IsCfg(fc) == fc.is_config
            IsPacnew(fc) == fc.predicted_pacnew
            IsPacsave(fc) == fc.predicted_pacsave
        IN  /\ info.new_count = NumberOf(info.files, IsNew)
            /\ info.changed_count = NumberOf(info.files, IsChanged)
            /\ info.removed_count = NumberOf(info.files, IsRemoved)
            /\ info.config_count = NumberOf(info.files, IsCfg)
            /\ info.pacnew_candidates = NumberOf(info.files, IsPacnew)
            /\ info.pacsave_candidates = NumberOf(info.files, IsPacsave)
            /\ action = "Install" => info.total_count = info.new_count + info.changed_count
            /\ action = "Remove" => info.total_count = info.removed_count

\* An Install result over a remote list that holds a directory and a config
\* file that is already installed and backed up.
C9_Witness ==
    /\ FileInfoReturned
    /\ action = "Install"
    /\ \E i \in 1..Len(remote_files) : IsDir(remote_files[i])
    /\ item_ret.value.changed_count = 1
    /\ item_ret.value.config_count = 1
    /\ item_ret.value.pacnew_candidates = 1

\* C10: in every PackageFileInfo a per-package resolver returns, a record
\* with predicted_pacnew belongs to an Install, and its path is in the backup
\* files, in the installed file list and is a config path; a record with
\* predicted_pacsave belongs to a Remove, and its path is in the backup files
\* and is a config path; no record has both flags.
C10_PacnewPacsaveConditions ==
    FileInfoReturned =>
        \A i \in 1..Len(item_ret.value.files) :
            LET fc == item_ret.value.files[i]
            IN  /\ fc.predicted_pacnew =>
                    /\ action = "Install"
                    /\ fc.path \in Range(backup_files)
                    /\ fc.path \in Range(installed_files)
                    /\ fc.is_config
                    /\ StartsWith(fc.path, <<"/", "e", "t", "c", "/">>)
                /\ fc.predicted_pacsave =>
                    /\ action = "Remove"
                    /\ fc.path \in Range(backup_files)
                    /\ fc.is_config
                    /\ StartsWith(fc.path, <<"/", "e", "t", "c", "/">>)
                /\ ~(fc.predicted_pacnew /\ fc.predicted_pacsave)

\* An Install result with a pacnew prediction on one record, next to a record
\* whose path is in the backup files and that has none.
C10_Witness ==
    /\ FileInfoReturned
    /\ action = "Install"
    /\ \E i, j \in 1..Len(item_ret.value.files) :
          /\ item_ret.value.files[i].predicted_pacnew
          /\ ~item_ret.value.files[j].predicted_pacnew
          /\ item_ret.value.files[j].path \in Range(backup_files)

\* The list a per-package resolver classifies: the remote file list for
\* Install, the installed file list for Remove.
ClassifiedInput == IF action = "Install" THEN remote_files ELSE installed_files

EndsWithSeparator(path) == path # <<>> /\ path[Len(path)] = "/"

BeginsWithEtc(path) ==
    /\ Len(path) >= 5
    /\ path[1] = "/" /\ path[2] = "e" /\ path[3] = "t" /\ path[4] = "c" /\ path[5] = "/"

\* C11: in every PackageFileInfo a per-package resolver returns, an Install
\* record is Changed exactly when its path is in the installed file list and
\* New otherwise, a Remove record is Removed, is_config holds exactly when the
\* path begins with /etc/, and every non-directory path of the classified
\* list has a record.
C11_Classification ==
    FileInfoReturned =>
        LET files == item_ret.value.files
        IN  /\ \A i \in 1..Len(files) :
                  /\ files[i].is_config <=> BeginsWithEtc(files[i].path)
                  /\ action = "Install" =>
                        /\ files[i].change_type = "Changed"
                              <=> files[i].path \in Range(installed_files)
                        /\ files[i].change_type = "New"
                              <=> files[i].path \notin Range(installed_files)
                  /\ action = "Remove" => files[i].change_type = "Removed"
            /\ \A k \in 1..Len(ClassifiedInput) :
                  ~EndsWithSeparator(ClassifiedInput[k]) =>
                      \E i \in 1..Len(files) : files[i].path = ClassifiedInput[k]

\* An Install result with a Changed record under /etc/ and a New record
\* outside of it.
C11_Witness ==
    /\ FileInfoReturned
    /\ action = "Install"
    /\ \E i, j \in 1..Len(item_ret.value.files) :
          /\ item_ret.value.files[i].change_type = "Changed"
          /\ item_ret.value.files[i].is_config
          /\ item_ret.value.files[j].change_type = "New"
          /\ ~item_ret.value.files[j].is_config

\* C12: in every PackageFileInfo a per-package resolver returns, no record's
\* path ends with the separator, and the counts are those of the classified
\* list without its directory entries.
C12_DirectoriesExcluded ==
    FileInfoReturned =>
        LET info == item_ret.value
            NonDirs == {k \in 1..Len(ClassifiedInput) :
                            ~EndsWithSeparator(ClassifiedInput[k])}
            Configs == {k \in NonDirs : BeginsWithEtc(ClassifiedInput[k])}
        IN  /\ \A i \in 1..Len(info.files) : ~EndsWithSeparator(info.files[i].path)
            /\ Len(info.files) = Cardinality(NonDirs)
            /\ info.total_count = Cardinality(NonDirs)
            /\ info.new_count + info.changed_count + info.removed_count
                  = Cardinality(NonDirs)
            /\ info.config_count = Cardinality(Configs)
            /\ info.pacnew_candidates <= Cardinality(Configs)
            /\ info.pacsave_candidates <= Cardinality(Configs)

\* A Remove result for an installed list that holds a directory under /etc/
\* and one file.
C12_Witness ==
    /\ FileInfoReturned
    /\ action = "Remove"
    /\ Len(installed_files) = 2
    /\ \E k \in 1..2 : EndsWithSeparator(installed_files[k])
                          /\ BeginsWithEtc(installed_files[k])
    /\ item_ret.value.total_count = 1

\* a <= b in lexicographic order: a is a prefix of b, or at the first position
\* where they differ a has the smaller byte.
LexLeq(a, b) ==
    \/ Len(a) <= Len(b) /\ \A k \in 1..Len(a) : a[k] = b[k]
    \/ \E k \in 1..Len(a) :
          /\ k <= Len(b)
          /\ \A m \in 1..(k - 1) : a[m] = b[m]
          /\ CharCode(a[k]) < CharCode(b[k])

\* C13: in every PackageFileInfo a per-package resolver returns, files is in
\* ascending lexicographic order of path.
C13_FilesSortedByPath ==
    FileInfoReturned =>
        \A i, j \in 1..Len(item_ret.value.files) :
            i < j => LexLeq(item_ret.value.files[i].path, item_ret.value.files[j].path)

\* A result with two records whose paths were listed in descending order.
C13_Witness ==
    /\ FileInfoReturned
    /\ Len(ClassifiedInput) = 2
    /\ ClassifiedInput[1] # ClassifiedInput[2]
    /\ LexLeq(ClassifiedInput[2], ClassifiedInput[1])
    /\ Len(item_ret.value.files) = 2

(***************************************************************************)
(* Batch and per-package dependency queries                                *)
(***************************************************************************)
\* An isolated per-package query has returned a list for a package that the
\* batch response holds too.
InBothPaths ==
    /\ bpc = "done"
    /\ DepsReturned
    /\ ret.ok
    /\ name \in DOMAIN result_map

NameAndVersion(ds) == [i \in 1..Len(ds) |-> <<ds[i].name, ds[i].version>>]

ParsedSpecs(specs) == [i \in 1..Len(specs) |-> parse_dep_spec(specs[i])]

C15_AurDepsDeduplicatedByName ==
    (DepsReturned /\ source.kind = "Aur" /\ ret.ok) =>
        \A i, j \in 1..Len(ret.value) :
            i # j => ret.value[i].name # ret.value[j].name

CountInLog(cmd) == Cardinality({i \in 1..Len(log) : log[i].cmd = cmd})

\* C16: while resolve_package_deps runs for an AUR package, paru -Si is
\* issued at most once and before any yay -Si; yay -Si is about to be issued
\* only when yay is installed and paru has contributed nothing (no entry kept,
\* none filtered); and once the helpers are done, yay was queried exactly when
\* it is installed and paru was absent, failed or listed nothing, so a
\* helper-derived list comes from one helper only.
C16_ParuThenYay ==
    (op = "deps" /\ source.kind = "Aur" /\ pc \in {"paru_si", "yay_si", "srcinfo", "done"}) =>
        /\ CountInLog("paru -Si") <= 1
        /\ CountInLog("yay -Si") <= 1
        /\ \A i, j \in 1..Len(log) :
              (log[i].cmd = "paru -Si" /\ log[j].cmd = "yay -Si") => i < j
        /\ pc = "paru_si" => has_paru /\ CountInLog("yay -Si") = 0
        /\ pc = "yay_si" =>
              /\ has_yay
              /\ deps = <<>> /\ dropped = {}
              /\ has_paru <=> CountInLog("paru -Si") = 1
        /\ pc = "srcinfo" =>
              /\ has_paru <=> CountInLog("paru -Si") = 1
              /\ CountInLog("yay -Si") = 1 => has_yay
              /\ (CountInLog("yay -Si") = 0 /\ has_yay) =>
                    /\ LogHas("paru -Si", "ok")
                    /\ used_helper
                    /\ deps # <<>> \/ dropped # {}

\* Both helpers are installed, paru -Si succeeded with nothing to list, and
\* yay -Si then supplied the helper-derived list.
C16_Witness ==
    /\ op = "deps" /\ source.kind = "Aur" /\ pc = "srcinfo"
    /\ has_paru /\ has_yay
    /\ LogHas("paru -Si", "ok")
    /\ LogHas("yay -Si", "ok")
    /\ used_helper
    /\ deps # <<>>

\* C17: when resolve_remove_files returns, a `pacman -Ql` that reported the
\* package as not installed gave a successful result with no files and all
\* counts zero, and a `pacman -Ql` that failed in any other way (could not be
\* started, or exited non-zero for another reason) gave an error.
C17_RemoveNotInstalledIsEmpty ==
    (fpc = "item_done" /\ rm_ql_status # "none") =>
        /\ rm_ql_status = "not_found" =>
               /\ item_ret.ok
               /\ item_ret.value.name = item.name
               /\ AllCountsZero(item_ret.value)
        /\ rm_ql_status \in {"other", "spawn_err"} => ~item_ret.ok

C17_Witness ==
    /\ fpc = "item_done"
    /\ action = "Remove"
    /\ rm_ql_status = "not_found"
    /\ item_ret.ok
    /\ item_ret.value.files = <<>>

\* C18: once the cancellation flag is raised, the per-package loop of
\* resolve_file_changes stops at its next iteration boundary: from a boundary
\* reached with the flag raised no further package is begun, and the entries
\* already produced are kept as they are.
C18_LoopStopsOnceCancelled ==
    [][(preflight_cancelled /\ fpc = "loop") =>
           /\ fpc' \in {"loop", "done"}
           /\ results' = results]_vars

\* C19: a request whose signature equals that of the session, made while a
\* stage of the session is Resolving or while every stage is Resolved and the
\* results were not invalidated, is dropped: no stage changes state, the
\* session stays the same and no new resolution is started.
C19_DuplicateRequestDropped ==
    [][(/\ requests' = requests + 1
        /\ session # <<>>
        /\ last_sig' = session
        /\ SomeResolving \/ (AllResolved /\ valid)) =>
           /\ stage' = stage
           /\ session' = session
           /\ instance' = instance]_vars

\* A request was dropped after the session had resolved every stage.
C19_Witness ==
    /\ requests > instance
    /\ instance = 1
    /\ last_sig = session
    /\ AllResolved
    /\ valid

StageMove(s) == <<stage[s], stage'[s]>>

SynthesizedGuesses(n) ==
    <<<<"/", "u", "s", "r", "/", "b", "i", "n", "/">> \o n,
      <<"/", "u", "s", "r", "/", "s", "h", "a", "r", "e", "/">> \o n>>

\* The AUR chain of get_remote_file_list has gone through the installed
\* list, the helpers and the PKGBUILD, and none of them gave a path.
AurChainExhausted ==
    /\ fpc = "ql"
    /\ item # Null
    /\ item.source.kind = "Aur"
    /\ pkgbuild_miss # "none"

\* C21 as stated: whenever no earlier source of the AUR chain yields a path,
\* the remote file list is the pair of synthesized guesses.
C21_GuessesWheneverChainEmpty ==
    AurChainExhausted => remote_files = SynthesizedGuesses(item.name)

\* C21, amended: when no earlier source yields a path, the remote file list
\* is the pair of synthesized guesses if the PKGBUILD was fetched, and is
\* empty if the PKGBUILD could not be fetched.
C21_GuessesOnlyWithPkgbuild ==
    AurChainExhausted =>
        /\ pkgbuild_miss = "no_paths" => remote_files = SynthesizedGuesses(item.name)
        /\ pkgbuild_miss = "fetch_err" => remote_files = <<>>

C21_Witness ==
    /\ AurChainExhausted
    /\ action = "Install"
    /\ pkgbuild_miss = "no_paths"
    /\ remote_files = SynthesizedGuesses(Pkg)

AurConflictSources == <<"paru -Si", "yay -Si", "fetch .SRCINFO">>

\* The positions in `log` of the queries of the AUR conflict sources.
ConflictQueries == {i \in 1..Len(log) : log[i].cmd \in Range(AurConflictSources)}

SourceRank(cmd) == CHOOSE k \in 1..3 : AurConflictSources[k] = cmd

\* C23 as stated: once a source's query has succeeded, the result is
\* determined and no later source is consulted.
C23_FirstSucceedingSourceWins ==
    (ConflictsReturned /\ source.kind = "Aur") =>
        \A i \in ConflictQueries : log[i].status = "ok" => i = Len(log)

\* C23, amended: the sources are consulted in the order paru, yay, .SRCINFO,
\* each at most once; a helper determines the result only when its query
\* succeeds with a non-empty list, and then no later source is consulted;
\* every source consulted before the last one gave nothing; the result is
\* exactly the list of the last source consulted, so no two lists are merged.
C23_FirstUsableSourceWins ==
    (ConflictsReturned /\ source.kind = "Aur") =>
        /\ \A i, j \in ConflictQueries :
               i < j => SourceRank(log[i].cmd) < SourceRank(log[j].cmd)
        /\ Len(log) \in ConflictQueries
        /\ ret = log[Len(log)].listed
        /\ \A i \in ConflictQueries : i < Len(log) => log[i].listed = <<>>
        /\ log[Len(log)].cmd # "fetch .SRCINFO" => log[Len(log)].listed # <<>>

\* paru answered with an empty list, and the list of yay was returned.
C23_Witness ==
    /\ ConflictsReturned /\ source.kind = "Aur"
    /\ LogHas("paru -Si", "ok")
    /\ log[Len(log)].cmd = "yay -Si"
    /\ ret # <<>>

\* The names the helpers and the `depends` of a .SRCINFO can list.
RuntimeNames == {parse_dep_spec(t)[1] : t \in TokenPool}

\* The make, check and optional dependency names of the .SRCINFO fetched by
\* the resolution that returned.
SrcinfoBuildNames ==
    UNION {log[i].build_names :
             i \in {j \in 1..Len(log) : log[j].cmd = "fetch .SRCINFO"}}

NthChunk(names, i) ==
    SubSeq(names, DEPS_BATCH_SIZE * (i - 1) + 1,
           IF DEPS_BATCH_SIZE * i < Len(names) THEN DEPS_BATCH_SIZE * i ELSE Len(names))

NumChunks(names) == (Len(names) + DEPS_BATCH_SIZE - 1) \div DEPS_BATCH_SIZE

\* The names whose blocks were parsed by the queries that succeeded.
ParsedNames == UNION {b_log[i].named : i \in 1..Len(b_log)}

\* C25: when batch_fetch_official_deps returns, the queries it issued are
\* the chunks of at most 50 names of its input, in input order, one query per
\* chunk; only the last query can have failed, so nothing was queried or
\* retried after a failure; without a failure every chunk was queried; and
\* the map holds exactly the entries parsed from the successful queries.
C25_ChunkedUntilFirstFailure ==
    bpc = "done" =>
        /\ Len(b_log) <= NumChunks(b_input)
        /\ \A i \in 1..Len(b_log) :
               /\ b_log[i].chunk = NthChunk(b_input, i)
               /\ Len(b_log[i].chunk) \in 1..50
               /\ i < Len(b_log) => b_log[i].status = "ok"
        /\ (\A i \in 1..Len(b_log) : b_log[i].status = "ok") =>
               Len(b_log) = NumChunks(b_input)
        /\ DOMAIN result_map = ParsedNames
        /\ \A n \in ParsedNames : result_map[n] = metadata[n]

\* The second of three chunks failed after the first had been parsed.
C25_Witness ==
    /\ bpc = "done"
    /\ NumChunks(b_input) = 3
    /\ Len(b_log) = 2
    /\ b_log[1].status = "ok"
    /\ b_log[2].status # "ok"
    /\ result_map # EmptyCache

SyncLogged(status) ==
    \E k \in 1..Len(flog) : flog[k].cmd = "pacman -Fy" /\ flog[k].status = status

\* C22: a resolve_file_changes whose `pacman -Fy` failed is never at its
\* return before every item has been resolved, and when it returns its
\* results hold one entry per item, in item order.
C22_SyncFailureSwallowed ==
    (caller = "loop" /\ SyncLogged("failed")) =>
        /\ fpc = "done" => idx = Len(items) + 1
        /\ fpc = "done" => Len(results) = Len(items)
        /\ \A i \in 1..Len(results) : results[i].name = items[i].name

\* After a failed refresh a two-item Install returned, its second item with a
\* non-empty file list.
C22_Witness ==
    /\ caller = "loop" /\ fpc = "done"
    /\ SyncLogged("failed")
    /\ action = "Install"
    /\ Len(results) = 2
    /\ results[2].total_count > 0
    /\ failed = {}

\* C28: every `pacman -Fy` that resolve_file_changes attempted was attempted
\* for an Install, never for a Remove, and never with a newest database file
\* known to be less than 30 days old.
C28_SyncOnlyForStaleInstall ==
    caller = "loop" =>
        \A k \in 1..Len(flog) :
            (flog[k].cmd = "pacman -Fy" /\ flog[k].status # "skipped") =>
                /\ action = "Install"
                /\ flog[k].age = <<>> \/ flog[k].age[1] >= 30

BatchLogged(repo, status) ==
    \E k \in 1..Len(flog) :
        /\ flog[k].cmd = "pacman -Fl (batch)"
        /\ flog[k].repo = repo
        /\ flog[k].status = status

\* The batch fetch of an Install is over.
BatchFetchOver ==
    caller = "loop" /\ action = "Install" /\ fpc \notin {"idle", "sync", "batch"}

\* The loop is about to take an official item that has no entry in the batch
\* lookup table.
AtBatchMiss ==
    /\ caller = "loop" /\ action = "Install"
    /\ fpc = "loop" /\ idx <= Len(items)
    /\ items[idx].source.kind = "Official"
    /\ items[idx].name \notin DOMAIN cache

C27_BackupPriority ==
    [][/\ (fpc = "qii" /\ fpc' = "classify") => backup_files' # <<>>
       /\ (fpc = "qii" /\ fpc' # "classify") =>
              fpc' = IF item.source.kind = "Aur" THEN "bk_srcinfo" ELSE "bk_pkgbuild"
       /\ (fpc = "bk_srcinfo" /\ fpc' = "bk_pkgbuild") =>
              srcinfo_backup' = "fetch_err"]_vars

\* The indices (from 0) of the terms that are an executable file in some
\* directory of $PATH.
AvailableTerms ==
    IF t_path = <<>> THEN {}
    ELSE {i \in 0..(Len(t_terms) - 1) :
            \E d \in 1..Len(t_path[1]) : IsExecFile(t_path[1][d], t_terms[i + 1])}

DirsWithTerminal ==
    IF t_path = <<>> THEN {}
    ELSE {d \in 1..Len(t_path[1]) :
            \E i \in 1..Len(t_terms) : IsExecFile(t_path[1][d], t_terms[i])}

C30_EnrichmentSurvivesUpdate ==
    [][(upc = "replace" /\ upc' = "idle") =>
          \A n \in DOMAIN official_index \cap DOMAIN official_index' :
              official_index'[n] = official_index[n]]_vars

====
